---- MODULE Spec2Model ----
(***************************************************************************)
(* photometa-restore: the filename-resolution engine and the per-record    *)
(* processing pipeline of MediaProcessor (processor.py) with the helpers   *)
(* of utils/file_operations.py, utils/validation.py and utils/metadata.py. *)
(*                                                                         *)
(* File names are TLA+ strings, handled character by character with        *)
(* Len, SubSeq and \o exactly as the Python code handles str values.       *)
(***************************************************************************)
EXTENDS Integers, Sequences, FiniteSets, TLC

VARIABLES
    fs,               \* media files on disk: a set of [dir, name, id]
    jsons,            \* names of the .json records present in the base directory
    media_moved,      \* MediaProcessor.media_moved (the moved ledger), a sequence
    success_counter,  \* MediaProcessor.success_counter
    error_counter,    \* MediaProcessor.error_counter
    errorLog,         \* lines written through error_logger (level ERROR and above)
    missingLog,       \* lines written through missing_logger
    pc,               \* "idle" | "running" : position inside process_all
    queue,            \* process_all's sorted json_files list
    idx,              \* process_all's loop index i
    runNo,            \* number of process_directory calls started so far
    returned,         \* the pairs returned by the finished process_directory calls
    runStart,         \* [fs, jsons] as they were when the current/last run started
    singles,          \* number of direct process_json_file calls made so far
    passed,           \* the records process_all has passed to process_json_file
    faults,           \* faulty operations the environment has performed so far
    last,             \* what the most recent process_json_file call did
    progress,         \* the progress_callback invocations of the current/last run
    probe             \* inputs/results of the pure-function specifications

vars == <<fs, jsons, media_moved, success_counter, error_counter, errorLog,
          missingLog, pc, queue, idx, runNo, returned, runStart, singles, passed,
          faults, last, progress, probe>>

mainVars == <<fs, jsons, media_moved, success_counter, error_counter, errorLog,
              missingLog, pc, queue, idx, runNo, returned, runStart, singles, passed,
              faults, last, progress>>

-----------------------------------------------------------------------------
(* Python str helpers *)

CharAt(s, i) == SubSeq(s, i, i)

\* c in s, for a one-character c
HasChar(s, c) == \E i \in 1..Len(s) : CharAt(s, i) = c

\* s.rfind(c) + 1 : the index of the last occurrence of c, 0 when there is none
RECURSIVE RFindFrom(_, _, _)
RFindFrom(s, c, i) ==
    IF i = 0 THEN 0 ELSE IF CharAt(s, i) = c THEN i ELSE RFindFrom(s, c, i - 1)
RFind(s, c) == RFindFrom(s, c, Len(s))

\* s.rsplit('.', 1)[0] and [1] for an s that contains a dot
RSplitHead(s) == SubSeq(s, 1, RFind(s, ".") - 1)
RSplitTail(s) == SubSeq(s, RFind(s, ".") + 1, Len(s))

\* s.endswith(suffix)
EndsWith(s, suffix) ==
    Len(s) >= Len(suffix) /\ SubSeq(s, Len(s) - Len(suffix) + 1, Len(s)) = suffix

\* str(n) for a natural number n
Digit(d) == CharAt("0123456789", d + 1)
RECURSIVE IntToStr(_)
IntToStr(n) == IF n < 10 THEN Digit(n) ELSE IntToStr(n \div 10) \o Digit(n % 10)

\* x in list, for a Python list modelled as a sequence
InList(x, list) == \E i \in 1..Len(list) : list[i] = x

\* str.lower() on the letters that occur in the modelled extensions
LowerChar(c) ==
    CASE c = "J" -> "j" [] c = "P" -> "p" [] c = "G" -> "g" [] c = "E" -> "e"
      [] c = "T" -> "t" [] c = "I" -> "i" [] c = "F" -> "f" [] OTHER -> c
RECURSIVE Lower(_)
Lower(s) == IF Len(s) = 0 THEN "" ELSE LowerChar(CharAt(s, 1)) \o Lower(Tail(s))

-----------------------------------------------------------------------------
(* utils/file_operations.py *)

\* fix_title's incompatible_chars list
IncompatibleChars ==
    <<"%", "<", ">", "=", ":", "?", "¿", "*", "#", "&",
      "{", "}", "\\", "@", "!", "¿", "+", "|", "\"", "'">>

\* str.replace(char, "") for a one-character char
RECURSIVE RemoveFrom(_, _, _)
RemoveFrom(s, c, i) ==
    IF i > Len(s) THEN ""
    ELSE (IF CharAt(s, i) = c THEN "" ELSE CharAt(s, i)) \o RemoveFrom(s, c, i + 1)
RemoveChar(s, c) == IF HasChar(s, c) THEN RemoveFrom(s, c, 1) ELSE s

\* the loop of fix_title over the first k entries of incompatible_chars
RECURSIVE FixLoop(_, _)
FixLoop(s, k) ==
    IF k = 0 THEN s ELSE RemoveChar(FixLoop(s, k - 1), IncompatibleChars[k])

\* a fix_title whose list holds the question mark only
MutFixQuestionMark(title) == RemoveChar(title, "?")

fix_title(title) == FixLoop(title, Len(IncompatibleChars))

\* the name check_if_same_name builds for one recursion_time:
\* parts always has two elements, so the form with the dot is always used
SuffixedName(title, n) ==
    IF HasChar(title, ".")
    THEN RSplitHead(title) \o "(" \o IntToStr(n) \o ")." \o RSplitTail(title)
    ELSE title \o "(" \o IntToStr(n) \o ")." \o ""

MutCheckOnce(title, title_fixed, moved, recursion_time) ==
    IF InList(title_fixed, moved) THEN SuffixedName(title, recursion_time) ELSE title_fixed

RECURSIVE check_if_same_name(_, _, _, _)
check_if_same_name(title, title_fixed, moved, recursion_time) ==
    IF InList(title_fixed, moved)
    THEN check_if_same_name(title, SuffixedName(title, recursion_time),
                            moved, recursion_time + 1)
    ELSE title_fixed


-----------------------------------------------------------------------------
(* The file system: the base directory and the two output directories *)

BaseDir == "base"
MatchedDir == "MatchedMedia"       \* config.MATCHED_MEDIA_DIR
EditedDir == "EditedRaw"           \* config.EDITED_RAW_DIR

\* a media file dir/name is on disk
ExistsMedia(f, d, n) == \E e \in f : e.dir = d /\ e.name = n

\* Path.exists(): media files, and the .json records that live in the base directory
PathExists(f, js, d, n) == ExistsMedia(f, d, n) \/ (d = BaseDir /\ n \in js)

EntryAt(f, d, n) == CHOOSE e \in f : e.dir = d /\ e.name = n

\* os.remove(path) of a media file
RemoveAt(f, d, n) == {e \in f : ~(e.dir = d /\ e.name = n)}

MaxRetries == 3

\* What one attempt of the move can meet: no obstacle, a PermissionError from
\* os.remove(dest) (destination held by another process), a PermissionError from
\* shutil.move (source held by another process), any other exception from shutil.move.
AttemptOutcomes == {"ok", "destLocked", "srcLocked", "error"}
MoveScripts == [1..MaxRetries -> AttemptOutcomes]

\* shutil.move(source, dest) that succeeds, dest being absent
MoveEntry(f, sd, sn, dd, dn) ==
    RemoveAt(f, sd, sn) \cup {[dir |-> dd, name |-> dn, id |-> EntryAt(f, sd, sn).id]}

\* the loop of safe_move_file with an except clause that retries after any exception
RECURSIVE MutRetryAnyError(_, _, _, _, _, _, _, _)
MutRetryAnyError(f, sd, sn, dd, dn, script, retries, env) ==
    IF retries >= MaxRetries
    THEN [ok |-> FALSE, attempts |-> retries, fs |-> f, env |-> env]
    ELSE LET o == script[retries + 1]
             f1 == RemoveAt(f, dd, dn)
         IN  IF ExistsMedia(f, dd, dn) /\ o = "destLocked"
             THEN MutRetryAnyError(f, sd, sn, dd, dn, script, retries + 1, TRUE)
             ELSE IF ~ExistsMedia(f1, sd, sn) \/ o \in {"srcLocked", "error"}
             THEN MutRetryAnyError(f1, sd, sn, dd, dn, script, retries + 1, TRUE)
             ELSE [ok |-> TRUE, attempts |-> retries + 1,
                   fs |-> MoveEntry(f1, sd, sn, dd, dn), env |-> env]

\* the while loop of safe_move_file under one script of attempt outcomes;
\* env records whether the environment raised anything during the call
RECURSIVE MoveLoop(_, _, _, _, _, _, _, _)
MoveLoop(f, sd, sn, dd, dn, script, retries, env) ==
    IF retries >= MaxRetries
    THEN [ok |-> FALSE, attempts |-> retries, fs |-> f, env |-> env]
    ELSE LET o == script[retries + 1]
             f1 == RemoveAt(f, dd, dn)
         IN  IF ExistsMedia(f, dd, dn) /\ o = "destLocked"
             THEN MoveLoop(f, sd, sn, dd, dn, script, retries + 1, TRUE)
             ELSE IF ~ExistsMedia(f1, sd, sn)
             THEN [ok |-> FALSE, attempts |-> retries + 1, fs |-> f1, env |-> env]
             ELSE IF o = "srcLocked"
             THEN MoveLoop(f1, sd, sn, dd, dn, script, retries + 1, TRUE)
             ELSE IF o = "error"
             THEN [ok |-> FALSE, attempts |-> retries + 1, fs |-> f1, env |-> TRUE]
             ELSE [ok |-> TRUE, attempts |-> retries + 1,
                   fs |-> MoveEntry(f1, sd, sn, dd, dn), env |-> env]

\* the scripts the environment may play when b more faulty operations are allowed
ScriptsFor(b) == IF b > 0 THEN MoveScripts ELSE {[i \in 1..MaxRetries |-> "ok"]}

\* safe_move_file(source, dest): every result the environment allows
safe_move_file(f, sd, sn, dd, dn, b) ==
    {MoveLoop(f, sd, sn, dd, dn, script, 0, FALSE) : script \in ScriptsFor(b)}

-----------------------------------------------------------------------------
(* MediaProcessor.search_media_file *)

edited_suffix == "edited"          \* config.DEFAULT_EDITED_SUFFIX
TruncLen == 47

SearchPaths == <<BaseDir, MatchedDir, EditedDir>>

StemOf(title) == IF HasChar(title, ".") THEN RSplitHead(title) ELSE title
ExtOf(title) == IF HasChar(title, ".") THEN RSplitTail(title) ELSE ""

EditedName(name, ext) ==
    IF ext # "" THEN name \o "-" \o edited_suffix \o "." \o ext
    ELSE name \o "-" \o edited_suffix
AltName(name, ext) ==
    IF ext # "" THEN name \o "(1)." \o ext ELSE name \o "(1)"
ShortTitle(name, ext) ==
    IF ext # "" THEN SubSeq(name, 1, TruncLen) \o "." \o ext ELSE SubSeq(name, 1, TruncLen)

NoHit == [hit |-> FALSE, name |-> "", orig |-> "", preserve |-> FALSE]
Hit(n, o, p) == [hit |-> TRUE, name |-> n, orig |-> o, preserve |-> p]

\* lines 133-174 left out: no retry with the truncated title
MutNoTruncation(title, d, f, js, moved) == NoHit

\* the truncated-title block of one loop iteration (lines 133-174)
ProbeShort(title, d, f, js, moved) ==
    LET name == StemOf(title)
        ext == ExtOf(title)
        short_name == SubSeq(name, 1, TruncLen)
        short_title == ShortTitle(name, ext)
        short_edited_name == EditedName(short_name, ext)
        short_alt_name == AltName(short_name, ext)
        alt_name == check_if_same_name(short_title, short_title, moved, 1)
    IN  IF PathExists(f, js, d, short_edited_name) THEN Hit(short_edited_name, short_title, TRUE)
        ELSE IF PathExists(f, js, d, short_alt_name) THEN Hit(short_alt_name, short_title, TRUE)
        ELSE IF PathExists(f, js, d, short_title) THEN Hit(short_title, "", FALSE)
        ELSE IF PathExists(f, js, d, alt_name) THEN Hit(alt_name, "", FALSE)
        ELSE NoHit

MutProbePlainFirst(title, d, f, js, moved) ==
    LET name == StemOf(title)
        ext == ExtOf(title)
        edited_name == EditedName(name, ext)
        alt_name == AltName(name, ext)
        same_name == check_if_same_name(title, title, moved, 1)
    IN  IF PathExists(f, js, d, title) THEN Hit(title, "", FALSE)
        ELSE IF PathExists(f, js, d, edited_name) THEN Hit(edited_name, title, TRUE)
        ELSE IF PathExists(f, js, d, alt_name) /\ ~PathExists(f, js, d, title \o "(1).json")
        THEN Hit(alt_name, title, TRUE)
        ELSE IF PathExists(f, js, d, same_name) THEN Hit(same_name, "", FALSE)
        ELSE IF Len(name) > TruncLen THEN ProbeShort(title, d, f, js, moved)
        ELSE NoHit

\* one iteration of "for search_path in search_paths" (lines 96-174), title already fixed:
\* the name it returns, and the original it wants preserved in EditedRaw
ProbePath(title, d, f, js, moved) ==
    LET name == StemOf(title)
        ext == ExtOf(title)
        edited_name == EditedName(name, ext)
        alt_name == AltName(name, ext)
        same_name == check_if_same_name(title, title, moved, 1)
    IN  IF PathExists(f, js, d, edited_name) THEN Hit(edited_name, title, TRUE)
        ELSE IF PathExists(f, js, d, alt_name) /\ ~PathExists(f, js, d, title \o "(1).json")
        THEN Hit(alt_name, title, TRUE)
        ELSE IF PathExists(f, js, d, title) THEN Hit(title, "", FALSE)
        ELSE IF PathExists(f, js, d, same_name) THEN Hit(same_name, "", FALSE)
        ELSE IF Len(name) > TruncLen THEN ProbeShort(title, d, f, js, moved)
        ELSE NoHit

MutLastHitPath(title, f, js, moved) ==
    IF \E k \in 1..Len(SearchPaths) : ProbePath(title, SearchPaths[k], f, js, moved).hit
    THEN CHOOSE k \in 1..Len(SearchPaths) :
            /\ ProbePath(title, SearchPaths[k], f, js, moved).hit
            /\ \A m \in (k+1)..Len(SearchPaths) :
                   ~ProbePath(title, SearchPaths[m], f, js, moved).hit
    ELSE 0

\* the first search path whose iteration returns, 0 when the loop falls through
FirstHitPath(title, f, js, moved) ==
    IF \E k \in 1..Len(SearchPaths) : ProbePath(title, SearchPaths[k], f, js, moved).hit
    THEN CHOOSE k \in 1..Len(SearchPaths) :
            /\ ProbePath(title, SearchPaths[k], f, js, moved).hit
            /\ \A m \in 1..(k-1) : ~ProbePath(title, SearchPaths[m], f, js, moved).hit
    ELSE 0

\* search_media_file(title): every [found, name, root, fs, env] the environment
\* allows. found = FALSE stands for the None result; env = 1 when the environment
\* raised during the preserving move.
search_media_file(title_original, f, js, moved, b) ==
    LET title == fix_title(title_original)
        k == FirstHitPath(title, f, js, moved)
    IN  IF k = 0 THEN {[found |-> FALSE, name |-> "", root |-> "", fs |-> f, env |-> 0]}
        ELSE LET d == SearchPaths[k]
                 h == ProbePath(title, d, f, js, moved)
             IN  IF h.preserve /\ d = BaseDir /\ PathExists(f, js, BaseDir, h.orig)
                 THEN {[found |-> TRUE, name |-> h.name, root |-> d, fs |-> r.fs,
                        env |-> IF r.env THEN 1 ELSE 0] :
                          r \in safe_move_file(f, BaseDir, h.orig, EditedDir, h.orig, b)}
                 ELSE {[found |-> TRUE, name |-> h.name, root |-> d, fs |-> f, env |-> 0]}

-----------------------------------------------------------------------------
(* utils/validation.py : MetadataValidator *)

\* A raw JSON value of a scalar field: a number (or a string that parses as one),
\* a string that does not parse, null, or the key being absent.
Num(v) == [k |-> "num", v |-> v]
BadStr == [k |-> "bad", v |-> 0]
Null == [k |-> "null", v |-> 0]
Absent == [k |-> "missing", v |-> 0]

\* MetadataValidator.GEO_FIELDS
LatMin == -90
LatMax == 90
LonMin == -180
LonMax == 180

\* 4102444800 s (Jan 1, 2100); timestamps are counted in units of 100 s so that the
\* bound fits a 32-bit integer
TsMax == 41024448

\* _validate_required_fields
RequiredFieldErrors(raw) ==
    (CASE raw.title.k = "missing" -> <<"Missing required field: title">>
       [] raw.title.k = "other" -> <<"Invalid type for title">>
       [] OTHER -> <<>>)
    \o (CASE raw.photoTakenTime = "missing" -> <<"Missing required field: photoTakenTime">>
          [] raw.photoTakenTime = "other" -> <<"Invalid type for photoTakenTime">>
          [] OTHER -> <<>>)
    \o (CASE raw.geoData = "missing" -> <<"Missing required field: geoData">>
          [] raw.geoData = "other" -> <<"Invalid type for geoData">>
          [] OTHER -> <<>>)

\* the value the validator reads for a key of photoTakenTime / geoData; a value that
\* is not a dict (a JSON string) holds no key
TsField(raw) == IF raw.photoTakenTime = "dict" THEN raw.timestamp ELSE Absent
FormattedPresent(raw) == raw.photoTakenTime = "dict" /\ raw.formatted
GeoField(raw, field) == IF raw.geoData = "dict" THEN raw[field] ELSE Absent

\* _validate_timestamp with an out-of-range timestamp reported as an error
MutRangeIsError(raw) ==
    LET ts == TsField(raw)
        missing == (IF ts.k = "missing" THEN <<"Missing timestamp field: timestamp">> ELSE <<>>)
                   \o (IF ~FormattedPresent(raw)
                       THEN <<"Missing timestamp field: formatted">> ELSE <<>>)
    IN  CASE ts.k = "missing" -> [raised |-> FALSE, errors |-> missing, warnings |-> <<>>]
          [] ts.k = "null" -> [raised |-> TRUE, errors |-> missing, warnings |-> <<>>]
          [] ts.k = "bad" ->
               [raised |-> FALSE, errors |-> missing \o <<"Invalid timestamp format">>,
                warnings |-> <<>>]
          [] OTHER ->
               [raised |-> FALSE,
                errors |-> missing \o (IF ~(0 <= ts.v /\ ts.v <= TsMax)
                                       THEN <<"Timestamp outside reasonable range">>
                                       ELSE <<>>),
                warnings |-> <<>>]

\* _validate_timestamp: [raised, errors, warnings]
ValidateTimestamp(raw) ==
    LET ts == TsField(raw)
        missing == (IF ts.k = "missing" THEN <<"Missing timestamp field: timestamp">> ELSE <<>>)
                   \o (IF ~FormattedPresent(raw)
                       THEN <<"Missing timestamp field: formatted">> ELSE <<>>)
    IN  CASE ts.k = "missing" -> [raised |-> FALSE, errors |-> missing, warnings |-> <<>>]
          [] ts.k = "null" -> [raised |-> TRUE, errors |-> missing, warnings |-> <<>>]
          [] ts.k = "bad" ->
               [raised |-> FALSE, errors |-> missing \o <<"Invalid timestamp format">>,
                warnings |-> <<>>]
          [] OTHER ->
               [raised |-> FALSE, errors |-> missing,
                warnings |-> IF ~(0 <= ts.v /\ ts.v <= TsMax)
                             THEN <<"Timestamp outside reasonable range">> ELSE <<>>]

MutNoRangeCheck(v, field, lo, hi, bounded) ==
    CASE v.k = "missing" -> [raised |-> FALSE, errors |-> <<>>]
      [] v.k = "null" -> [raised |-> TRUE, errors |-> <<>>]
      [] v.k = "bad" -> [raised |-> FALSE, errors |-> <<"Invalid " \o field \o " format">>]
      [] OTHER -> [raised |-> FALSE, errors |-> <<>>]

\* one iteration of the loop of _validate_geo_data: [raised, errors]
ValidateGeoField(v, field, lo, hi, bounded) ==
    CASE v.k = "missing" -> [raised |-> FALSE, errors |-> <<>>]
      [] v.k = "null" -> [raised |-> TRUE, errors |-> <<>>]
      [] v.k = "bad" -> [raised |-> FALSE, errors |-> <<"Invalid " \o field \o " format">>]
      [] OTHER ->
           [raised |-> FALSE,
            errors |-> (IF bounded /\ v.v < lo
                        THEN <<field \o " below minimum value">> ELSE <<>>)
                       \o (IF bounded /\ v.v > hi
                           THEN <<field \o " above maximum value">> ELSE <<>>)]

\* _validate_geo_data: the three fields in the order of GEO_FIELDS; an exception
\* other than ValueError leaves the loop
ValidateGeo(raw) ==
    LET la == ValidateGeoField(GeoField(raw, "latitude"), "latitude", LatMin, LatMax, TRUE)
        lo == ValidateGeoField(GeoField(raw, "longitude"), "longitude", LonMin, LonMax, TRUE)
        al == ValidateGeoField(GeoField(raw, "altitude"), "altitude", 0, 0, FALSE)
    IN  [raised |-> la.raised \/ lo.raised \/ al.raised,
         errors |-> la.errors \o lo.errors \o al.errors]

\* validate_metadata: [raised, is_valid, errors, warnings]; raised = TRUE when an
\* exception leaves the validator (int(None) / float(None) raise TypeError)
validate_metadata(raw) ==
    LET req == RequiredFieldErrors(raw)
        t == IF raw.photoTakenTime # "missing" THEN ValidateTimestamp(raw)
             ELSE [raised |-> FALSE, errors |-> <<>>, warnings |-> <<>>]
        g == IF raw.geoData # "missing" THEN ValidateGeo(raw)
             ELSE [raised |-> FALSE, errors |-> <<>>]
        errors == req \o t.errors \o g.errors
    IN  [raised |-> t.raised \/ g.raised,
         is_valid |-> Len(errors) = 0,
         errors |-> errors,
         warnings |-> t.warnings]

-----------------------------------------------------------------------------
(* utils/metadata.py *)

NumOr0(v) == IF v.k = "num" THEN v.v ELSE 0

\* extract_metadata_from_json raises: .get on a photoTakenTime / geoData that is no
\* dict (AttributeError), int() of a null or unparsable timestamp
ExtractRaises(raw) ==
    \/ raw.photoTakenTime = "other"
    \/ raw.geoData = "other"
    \/ raw.photoTakenTime = "dict" /\ raw.timestamp.k \in {"null", "bad"}

\* the dictionary extract_metadata_from_json returns when it does not raise
extract_metadata_from_json(raw) ==
    [title |-> IF raw.title.k = "str" THEN raw.title.v ELSE "",
     timestamp |-> NumOr0(TsField(raw)),
     geo_data |-> [latitude |-> NumOr0(GeoField(raw, "latitude")),
                   longitude |-> NumOr0(GeoField(raw, "longitude")),
                   altitude |-> NumOr0(GeoField(raw, "altitude"))]]

\* any(geo_data.values())
AnyGeo(geo) == geo.latitude # 0 \/ geo.longitude # 0 \/ geo.altitude # 0

\* config.EXIF_SUPPORTED_FORMATS
EXIF_SUPPORTED_FORMATS == {"tif", "tiff", "jpeg", "jpg"}

\* Path(name).suffix
PathSuffix(n) ==
    LET i == RFind(n, ".")
    IN  IF 1 < i /\ i < Len(n) THEN SubSeq(n, i, Len(n)) ELSE ""

\* media_path.suffix.lower()[1:]
LowerExt(n) == IF PathSuffix(n) = "" THEN "" ELSE Lower(Tail(PathSuffix(n)))

\* convert_to_jpg_if_needed's new_filepath
JpgName(n) == RSplitHead(n) \o ".jpg"

\* convert_to_jpg_if_needed on dir/n whose image mode is mode: [name, fs]
convert_to_jpg_if_needed(f, d, n, mode) ==
    IF mode # "RGB" /\ JpgName(n) # n
    THEN [name |-> JpgName(n),
          fs |-> RemoveAt(RemoveAt(f, d, JpgName(n)), d, n)
                 \cup {[dir |-> d, name |-> JpgName(n), id |-> EntryAt(f, d, n).id]}]
    ELSE [name |-> n, fs |-> f]

-----------------------------------------------------------------------------
(* The records and media files of the modelled directories *)

GoodRaw(title, lat, lon, alt) ==
    [title |-> [k |-> "str", v |-> title], photoTakenTime |-> "dict",
     timestamp |-> Num(16000000), formatted |-> TRUE, geoData |-> "dict",
     latitude |-> lat, longitude |-> lon, altitude |-> alt]

LongTitle == "abcdefghijklmnopqrstuvwxyzabcdefghijklmnopqrstuv.jpg"
ShortenedTitle == "abcdefghijklmnopqrstuvwxyzabcdefghijklmnopqrstu.jpg"

\* the content of each .json record that may lie in the base directory
JsonTable ==
    [n \in {"a.jpg.json", "a.jpg(1).json", "t.tif.json", "v.mp4.json", "q.json",
            "bad.json", "null.json", "long.json", "short.json"} |->
        CASE n = "a.jpg.json" -> GoodRaw("a.jpg", Num(45), Num(-74), Num(10))
          [] n = "a.jpg(1).json" -> GoodRaw("a.jpg", Num(0), Num(0), Num(0))
          [] n = "t.tif.json" -> GoodRaw("t.tif", Num(48), Num(2), Num(-5))
          [] n = "v.mp4.json" -> GoodRaw("v.mp4", Num(0), Num(0), Num(0))
          [] n = "q.json" -> GoodRaw("a?.jpg", Num(0), Num(0), Num(0))
          [] n = "bad.json" -> GoodRaw("a.jpg", Num(200), Num(2), Num(0))
          [] n = "null.json" -> GoodRaw("a.jpg", Null, Num(2), Num(0))
          [] n = "long.json" -> GoodRaw(LongTitle, Num(0), Num(0), Num(0))
          [] OTHER -> GoodRaw(ShortenedTitle, Num(0), Num(0), Num(0))]

JsonNames == DOMAIN JsonTable

\* a record of the same name in another album directory, handed to the processor
\* by its path (process_batch, backup_metadata); the base directory scan never sees it
AlbumRecord == "album/a.jpg.json"

\* a record of the base directory whose title is its own file name
SelfRecord == "s.json"

\* json.load of the record at path j; the album record carries a timestamp past
\* the year 2100
RawOf(j) ==
    IF j = AlbumRecord
    THEN [GoodRaw("a.jpg", Num(12), Num(77), Num(3)) EXCEPT !.timestamp = Num(TsMax + 1)]
    ELSE IF j = SelfRecord
    THEN GoodRaw(SelfRecord, Num(0), Num(0), Num(0))
    ELSE JsonTable[j]

\* the media file names that may lie in the base directory at the start
MediaNames ==
    {"a.jpg", "a-edited.jpg", "a(1).jpg", "t.tif", "t.jpg", "v.mp4",
     ShortenedTitle, "abcdefghijklmnopqrstuvwxyzabcdefghijklmnopqrstu-edited.jpg", "abcdefghijklmnopqrstuvwxyzabcdefghijklmnopqrstu(1).jpg"}

\* media files an earlier run may have left in the output directories
EarlierFiles ==
    {[dir |-> MatchedDir, name |-> "a.jpg", id |-> "MatchedMedia/a.jpg"],
     [dir |-> EditedDir, name |-> "a.jpg", id |-> "EditedRaw/a.jpg"]}

MaxRecords == 2
MaxFiles == 2
MaxFaults == 1
MaxRuns == 2
MaxSingles == 1

-----------------------------------------------------------------------------
(* MediaProcessor.process_json_file *)

\* what one call did; the starting point of every result
Blank(j, f, js, moved) ==
    [json |-> j, ret |-> FALSE, raised |-> FALSE, outcome |-> "none",
     fs |-> f, jsons |-> js, moved |-> moved, succ |-> 0, err |-> 0,
     elog |-> <<>>, mlog |-> <<>>, env |-> 0,
     title |-> "", resolved |-> "", root |-> "", final |-> "",
     exifTried |-> FALSE, exifFailed |-> FALSE,
     timeTried |-> FALSE, timeFailed |-> FALSE, moveTried |-> FALSE]

Faulty(b) == IF b > 0 THEN {FALSE, TRUE} ELSE {FALSE}
ImageModes == {"RGB", "CMYK"}

\* lines 304-324 with a record that is never deleted
MutMoveKeepsRecord(r, d, b) ==
    {IF m.ok
     THEN [r EXCEPT !.ret = TRUE, !.outcome = "Success", !.fs = m.fs,
                    !.moved = Append(r.moved, r.resolved),
                    !.succ = 1, !.moveTried = TRUE,
                    !.env = r.env + (IF m.env THEN 1 ELSE 0)]
     ELSE [r EXCEPT !.ret = FALSE, !.outcome = "MoveFailed", !.fs = m.fs,
                    !.elog = r.elog \o <<"Error moving file">>,
                    !.err = 1, !.moveTried = TRUE,
                    !.env = r.env + (IF m.env THEN 1 ELSE 0)] :
     m \in safe_move_file(r.fs, d, r.final, MatchedDir, r.final, b - r.env)}

\* lines 304-324: the move into MatchedMedia, the deletion of the record, the ledger.
\* os.remove(json_path) can raise (the record held by another process, or the record
\* no longer there because it was the file that was moved): the except of line 319
\* then logs, counts an error and returns False, the media file moved.
MoveStage(r, d, b) ==
    LET \* the located path is a record of the base directory, moved like any file
        asFile == d = BaseDir /\ r.final \in r.jsons
        f0 == IF asFile
              THEN r.fs \cup {[dir |-> BaseDir, name |-> r.final, id |-> r.final]}
              ELSE r.fs
        fs1(m) == IF asFile THEN RemoveAt(m.fs, BaseDir, r.final) ELSE m.fs
        js1(m) == IF asFile /\ ~ExistsMedia(m.fs, BaseDir, r.final)
                  THEN r.jsons \ {r.final} ELSE r.jsons
    IN
    UNION {IF m.ok
           THEN LET e == r.env + (IF m.env THEN 1 ELSE 0)
                IN  IF r.json \notin js1(m)
                    THEN {[r EXCEPT !.ret = FALSE, !.outcome = "DeleteFailed",
                                    !.fs = fs1(m), !.jsons = js1(m),
                                    !.elog = r.elog \o <<"Error moving file">>,
                                    !.err = 1, !.moveTried = TRUE, !.env = e]}
                    ELSE
                    {IF held
                     THEN [r EXCEPT !.ret = FALSE, !.outcome = "DeleteFailed",
                                    !.fs = fs1(m), !.jsons = js1(m),
                                    !.elog = r.elog \o <<"Error moving file">>,
                                    !.err = 1, !.moveTried = TRUE, !.env = e + 1]
                     ELSE [r EXCEPT !.ret = TRUE, !.outcome = "Success", !.fs = fs1(m),
                                    !.jsons = js1(m) \ {r.json},
                                    !.moved = Append(r.moved, r.resolved),
                                    !.succ = 1, !.moveTried = TRUE, !.env = e] :
                     held \in Faulty(b - e)}
           ELSE {[r EXCEPT !.ret = FALSE, !.outcome = "MoveFailed", !.fs = fs1(m),
                           !.jsons = js1(m),
                           !.elog = r.elog \o <<"Error moving file">>,
                           !.err = 1, !.moveTried = TRUE,
                           !.env = r.env + (IF m.env THEN 1 ELSE 0)]} :
           m \in safe_move_file(f0, d, r.final, MatchedDir, r.final, b - r.env)}

\* lines 296-302 with a failure that is counted as an error of the record
MutTimeCountsError(r, d, b) ==
    UNION {MoveStage([r EXCEPT !.timeTried = TRUE, !.timeFailed = bad,
                               !.elog = IF bad THEN r.elog \o <<"Error setting file time">>
                                        ELSE r.elog,
                               !.err = IF bad THEN 1 ELSE r.err,
                               !.env = r.env + (IF bad THEN 1 ELSE 0)], d, b) :
           bad \in Faulty(b - r.env)}

\* lines 296-302: set_windows_file_time inside its own try/except
TimeStage(r, d, b) ==
    UNION {MoveStage([r EXCEPT !.timeTried = TRUE, !.timeFailed = bad,
                               !.elog = IF bad THEN r.elog \o <<"Error setting file time">>
                                        ELSE r.elog,
                               !.env = r.env + (IF bad THEN 1 ELSE 0)], d, b) :
           bad \in Faulty(b - r.env)}

\* lines 272-287 with set_exif_data called whatever the geo values are
MutExifAlways(r, d, md, b) ==
    UNION {TimeStage([r EXCEPT !.exifTried = TRUE, !.exifFailed = bad,
                               !.elog = IF bad THEN r.elog \o <<"EXIF data error">>
                                        ELSE r.elog,
                               !.env = r.env + (IF bad THEN 1 ELSE 0)], d, b) :
           bad \in Faulty(b - r.env)}

\* lines 272-287 with an EXIF failure that is counted as an error of the record
MutExifCountsError(r, d, md, b) ==
    IF AnyGeo(md.geo_data)
    THEN UNION {TimeStage([r EXCEPT !.exifTried = TRUE, !.exifFailed = bad,
                                    !.elog = IF bad THEN r.elog \o <<"EXIF data error">>
                                             ELSE r.elog,
                                    !.err = IF bad THEN 1 ELSE r.err,
                                    !.env = r.env + (IF bad THEN 1 ELSE 0)], d, b) :
                bad \in Faulty(b - r.env)}
    ELSE TimeStage(r, d, b)

\* lines 272-287: set_exif_data when any geo value is set, inside its own try/except
ExifStage(r, d, md, b) ==
    IF AnyGeo(md.geo_data)
    THEN UNION {TimeStage([r EXCEPT !.exifTried = TRUE, !.exifFailed = bad,
                                    !.elog = IF bad THEN r.elog \o <<"EXIF data error">>
                                             ELSE r.elog,
                                    !.env = r.env + (IF bad THEN 1 ELSE 0)], d, b) :
                bad \in Faulty(b - r.env)}
    ELSE TimeStage(r, d, b)

\* lines 264-294: the EXIF block; an exception of convert_to_jpg_if_needed
\* (an image PIL cannot open) reaches the except of line 289
ImageStage(r, d, md, b) ==
    IF LowerExt(r.resolved) \in EXIF_SUPPORTED_FORMATS
    THEN UNION {ExifStage([r EXCEPT !.final = convert_to_jpg_if_needed(r.fs, d, r.resolved, mode).name,
                                    !.fs = convert_to_jpg_if_needed(r.fs, d, r.resolved, mode).fs],
                          d, md, b) : mode \in ImageModes}
         \cup {[r EXCEPT !.ret = FALSE, !.outcome = "ConvertFailed", !.err = 1,
                         !.elog = r.elog \o <<"Error processing image">>,
                         !.env = r.env + 1] : x \in {y \in Faulty(b - r.env) : y}}
    ELSE TimeStage(r, d, b)

\* lines 229-258: locate the file among the search paths and validate access to it
LocateStage(r, md, b) ==
    IF ~\E k \in 1..Len(SearchPaths) : PathExists(r.fs, r.jsons, SearchPaths[k], r.resolved)
    THEN {[r EXCEPT !.ret = FALSE, !.outcome = "FileMissing", !.err = 1,
                    !.mlog = <<r.resolved>>]}
    ELSE LET k == CHOOSE k \in 1..Len(SearchPaths) :
                     /\ PathExists(r.fs, r.jsons, SearchPaths[k], r.resolved)
                     /\ \A m \in 1..(k-1) :
                            ~PathExists(r.fs, r.jsons, SearchPaths[m], r.resolved)
             d == SearchPaths[k]
         IN  UNION {IF denied
                    THEN {[r EXCEPT !.ret = FALSE, !.outcome = "FileInvalid", !.err = 1,
                                    !.root = d, !.mlog = <<r.resolved>>,
                                    !.env = r.env + 1]}
                    ELSE ImageStage([r EXCEPT !.root = d, !.final = r.resolved], d, md, b) :
                    denied \in Faulty(b - r.env)}

\* lines 220-227: the search and the not-found exit
SearchStage(r, md, b) ==
    UNION {IF ~s.found \/ s.name = ""
           THEN {[r EXCEPT !.ret = FALSE, !.outcome = "NotFound", !.err = 1,
                           !.fs = s.fs, !.mlog = <<md.title>>, !.env = s.env]}
           ELSE LocateStage([r EXCEPT !.fs = s.fs, !.resolved = s.name, !.env = s.env],
                            md, b) :
           s \in search_media_file(md.title, r.fs, r.jsons, r.moved, b)}

\* lines 203-218: validation, then the metadata of the record
ValidateStage(r, raw, b) ==
    LET v == validate_metadata(raw)
    IN  IF v.raised
        THEN {[r EXCEPT !.raised = TRUE, !.outcome = "Unexpected"]}
        ELSE IF ~v.is_valid
        THEN {[r EXCEPT !.ret = FALSE, !.outcome = "ValidationFailed", !.err = 1,
                        !.elog = [i \in 1..Len(v.errors) |->
                                     "Validation error: " \o v.errors[i]]]}
        ELSE SearchStage([r EXCEPT !.title = extract_metadata_from_json(raw).title],
                         extract_metadata_from_json(raw), b)

MutNoOuterExcept(r) == r

\* lines 326-331: the except clause around the whole body
OuterExcept(r) ==
    IF r.raised
    THEN [r EXCEPT !.raised = FALSE, !.ret = FALSE, !.err = 1,
                   !.elog = r.elog \o <<"Error processing JSON">>]
    ELSE r

\* process_json_file(json_file_path) in the state (f, js, moved), the environment
\* being allowed b faulty operations: every result it can have
process_json_file(j, f, js, moved, b) ==
    IF j \in js
    THEN {OuterExcept(r) : r \in ValidateStage(Blank(j, f, js, moved), RawOf(j), b)}
    ELSE IF ExistsMedia(f, BaseDir, j)
    THEN \* the path of a media file: validate_json_file cannot read it as JSON
         {[Blank(j, f, js, moved) EXCEPT !.ret = FALSE, !.outcome = "ValidationFailed",
                                         !.err = 1,
                                         !.elog = <<"Validation error: Error reading JSON file">>]}
    ELSE {[Blank(j, f, js, moved) EXCEPT !.ret = TRUE, !.outcome = "Skipped"]}

-----------------------------------------------------------------------------
(* The state machine *)

\* the part of a process_json_file result that last keeps, n counting the calls
Trace(r, n) ==
    [n |-> n, json |-> r.json, ret |-> r.ret, outcome |-> r.outcome, title |-> r.title,
     resolved |-> r.resolved, root |-> r.root, final |-> r.final,
     exifTried |-> r.exifTried, exifFailed |-> r.exifFailed,
     timeTried |-> r.timeTried, timeFailed |-> r.timeFailed,
     moveTried |-> r.moveTried, env |-> r.env]

NoProbe == [op |-> "none"]

\* MediaProcessor.__init__ on a directory holding some records and media files
InitMain ==
    /\ jsons \in {S \in SUBSET JsonNames : Cardinality(S) <= MaxRecords}
    /\ \E S \in SUBSET MediaNames, E \in SUBSET EarlierFiles :
          /\ Cardinality(S) + Cardinality(E) <= MaxFiles
          /\ fs = {[dir |-> BaseDir, name |-> n, id |-> n] : n \in S} \cup E
    /\ media_moved = <<>>
    /\ success_counter = 0
    /\ error_counter = 0
    /\ errorLog = <<>>
    /\ missingLog = <<>>
    /\ pc = "idle"
    /\ queue = <<>>
    /\ idx = 0
    /\ runNo = 0
    /\ returned = <<>>
    /\ runStart = [fs |-> fs, jsons |-> jsons]
    /\ singles = 0
    /\ passed = <<>>
    /\ faults = 0
    /\ last = Trace(Blank("", {}, {}, <<>>), 0)
    /\ progress = <<>>

Init == InitMain /\ probe = NoProbe

\* the effect of one process_json_file call on the processor and the directory
Apply(r) ==
    /\ fs' = r.fs
    /\ jsons' = r.jsons
    /\ media_moved' = r.moved
    /\ success_counter' = success_counter + r.succ
    /\ error_counter' = error_counter + r.err
    /\ errorLog' = errorLog \o r.elog
    /\ missingLog' = missingLog \o r.mlog
    /\ faults' = faults + r.env
    /\ last' = Trace(r, last.n + 1)

\* process_json_file called directly on a path (present or not)
ProcessSingle(j) ==
    /\ pc = "idle"
    /\ runNo = 0
    /\ singles < MaxSingles
    /\ \E r \in process_json_file(j, fs, jsons, media_moved, MaxFaults - faults) :
          /\ ~r.raised
          /\ Apply(r)
    /\ singles' = singles + 1
    /\ UNCHANGED <<pc, queue, idx, runNo, returned, runStart, passed, progress, probe>>

\* the progress of line 359 once the record is done, not before it
MutPercentDone(i, total_files) ==
    IF total_files > 0 THEN [num |-> 100 * (i + 1), den |-> total_files]
    ELSE [num |-> 0, den |-> 1]

\* line 359: progress = (i / total_files) * 100 if total_files > 0 else 0, kept as
\* the fraction num/den
Percent(i, total_files) ==
    IF total_files > 0 THEN [num |-> 100 * i, den |-> total_files]
    ELSE [num |-> 0, den |-> 1]

\* json_files without the sort of line 353: the arbitrary order of os.scandir
MutUnsortedListings(js) ==
    {q \in [1..Cardinality(js) -> js] :
        \A a, c \in 1..Cardinality(js) : a # c => q[a] # q[c]}

\* the orders json_files can have after the sort by name length: os.scandir yields
\* the entries in arbitrary order and list.sort is stable
SortedListings(js) ==
    {q \in [1..Cardinality(js) -> js] :
        /\ \A a, c \in 1..Cardinality(js) : a # c => q[a] # q[c]
        /\ \A a, c \in 1..Cardinality(js) : a < c => Len(q[a]) <= Len(q[c])}

\* process_directory: a new MediaProcessor, then process_all up to the loop
StartRun ==
    /\ pc = "idle"
    /\ runNo < MaxRuns
    /\ queue' \in SortedListings(jsons)
    /\ media_moved' = <<>>
    /\ success_counter' = 0
    /\ error_counter' = 0
    /\ errorLog' = <<"=== Starting new processing session ===">>
    /\ missingLog' = <<"=== Missing Files List ===">>
    /\ idx' = 0
    /\ passed' = <<>>
    /\ pc' = "running"
    /\ runNo' = runNo + 1
    /\ runStart' = [fs |-> fs, jsons |-> jsons]
    /\ progress' = <<>>
    /\ UNCHANGED <<fs, jsons, returned, singles, faults, last, probe>>

\* one iteration of the loop of process_all; an exception leaving
\* process_json_file would end the loop (the except of line 368)
Step ==
    /\ pc = "running"
    /\ idx < Len(queue)
    /\ \E r \in process_json_file(queue[idx + 1], fs, jsons, media_moved,
                                  MaxFaults - faults) :
          IF r.raised
          THEN /\ errorLog' = errorLog \o <<"Error during processing">>
               /\ pc' = "aborted"
               /\ last' = Trace(r, last.n + 1)
               /\ UNCHANGED <<fs, jsons, media_moved, success_counter, error_counter,
                              missingLog, faults, idx>>
          ELSE /\ Apply(r)
               /\ idx' = idx + 1
               /\ pc' = pc
    /\ progress' = Append(progress, [percent |-> Percent(idx, Len(queue)),
                                      success |-> success_counter,
                                      error |-> error_counter])
    /\ passed' = Append(passed, queue[idx + 1])
    /\ UNCHANGED <<queue, runNo, returned, runStart, singles, probe>>

\* the end of process_all: the closing log lines and the returned pair
EndRun ==
    /\ \/ pc = "running" /\ idx = Len(queue)
       \/ pc = "aborted"
    /\ errorLog' = errorLog \o <<"=== Processing session ended ===">>
    /\ missingLog' = missingLog \o <<"=== Processing session ended ===">>
    /\ returned' = Append(returned, <<success_counter, error_counter>>)
    /\ pc' = "idle"
    /\ UNCHANGED <<fs, jsons, media_moved, success_counter, error_counter, queue, idx,
                   runNo, runStart, singles, passed, faults, last, progress, probe>>

Next ==
    \/ \E j \in JsonNames : ProcessSingle(j)
    \/ StartRun
    \/ Step
    \/ EndRun

Spec == Init /\ [][Next]_vars

-----------------------------------------------------------------------------
(* check_if_same_name on its own: titles and ledgers drawn from bounded sets *)

\* the main variables while a pure function is examined
MainIdle ==
    /\ success_counter = 0
    /\ error_counter = 0
    /\ errorLog = <<>>
    /\ missingLog = <<>>
    /\ pc = "idle"
    /\ queue = <<>>
    /\ idx = 0
    /\ runNo = 0
    /\ returned = <<>>
    /\ runStart = [fs |-> {}, jsons |-> {}]
    /\ singles = 0
    /\ passed = <<>>
    /\ faults = 0
    /\ last = Trace(Blank("", {}, {}, <<>>), 0)
    /\ progress = <<>>

MaxLedger == 2
MaxChecks == 2

NameTitles == {"file.jpg", "b", "a.b.jpg"}
LedgerNames == {"file.jpg", "file(1).jpg", "file(2).jpg", "b", "b(1).", "a.b(1).jpg"}

SeqsUpTo(S, n) == UNION {[1..k -> S] : k \in 0..n}

InitNames ==
    /\ MainIdle
    /\ fs = {}
    /\ jsons = {}
    /\ media_moved \in SeqsUpTo(LedgerNames, MaxLedger)
    /\ \E t \in NameTitles :
          probe = [op |-> "names", title |-> t, calls |-> 0, before |-> <<>>, result |-> ""]

\* the resolver's use of check_if_same_name (processor.py line 128), the returned
\* name then entering the ledger as after a relocation
CheckName ==
    /\ probe.op = "names"
    /\ probe.calls < MaxChecks
    /\ probe' = [probe EXCEPT !.calls = probe.calls + 1,
                              !.before = media_moved,
                              !.result = check_if_same_name(probe.title, probe.title,
                                                            media_moved, 1)]
    /\ media_moved' = Append(media_moved, probe'.result)
    /\ UNCHANGED <<fs, jsons, success_counter, error_counter, errorLog, missingLog, pc,
                   queue, idx, runNo, returned, runStart, singles, passed, faults, last,
                   progress>>

NextNames == CheckName

SpecNames == InitNames /\ [][NextNames]_vars

-----------------------------------------------------------------------------
(* search_media_file on its own: files spread over the three search paths *)

MaxSearchFiles == 3

SearchTitles == {"a.jpg", "a?.jpg", "b", LongTitle}

\* the file names the search for a title can look at
NamesFor(t) ==
    LET title == fix_title(t)
        name == StemOf(title)
        ext == ExtOf(title)
    IN  IF Len(name) > TruncLen
        THEN {title, EditedName(name, ext), ShortTitle(name, ext),
              EditedName(SubSeq(name, 1, TruncLen), ext),
              AltName(SubSeq(name, 1, TruncLen), ext),
              SuffixedName(ShortTitle(name, ext), 2)}
        ELSE {title, EditedName(name, ext), AltName(name, ext),
              SuffixedName(title, 1), SuffixedName(title, 2)}

PlacesFor(t) ==
    {[dir |-> SearchPaths[k], name |-> n, id |-> SearchPaths[k] \o "/" \o n] :
        k \in 1..Len(SearchPaths), n \in NamesFor(t)}

LedgersFor(t) ==
    LET title == fix_title(t)
    IN  {<<>>, <<title>>, <<title, SuffixedName(title, 1)>>}
        \cup (IF Len(StemOf(title)) > TruncLen
              THEN {<<ShortTitle(StemOf(title), ExtOf(title))>>,
                    <<ShortTitle(StemOf(title), ExtOf(title)),
                      SuffixedName(ShortTitle(StemOf(title), ExtOf(title)), 1)>>}
              ELSE {})

SidecarsFor(t) ==
    LET title == fix_title(t)
    IN  {{}, {title \o "(1).json"}}
        \cup (IF Len(StemOf(title)) > TruncLen
              THEN {{ShortTitle(StemOf(title), ExtOf(title)) \o "(1).json"}} ELSE {})

InitSearch ==
    /\ MainIdle
    /\ \E t \in SearchTitles :
          /\ fs \in {S \in SUBSET PlacesFor(t) : Cardinality(S) <= MaxSearchFiles}
          /\ jsons \in SidecarsFor(t)
          /\ media_moved \in LedgersFor(t)
          /\ probe = [op |-> "search", title |-> t, done |-> FALSE, before |-> {},
                      found |-> FALSE, name |-> "", root |-> "", env |-> 0]

\* one call of search_media_file(title)
DoSearch ==
    /\ probe.op = "search"
    /\ ~probe.done
    /\ \E s \in search_media_file(probe.title, fs, jsons, media_moved, MaxFaults) :
          /\ fs' = s.fs
          /\ probe' = [probe EXCEPT !.done = TRUE, !.before = fs, !.found = s.found,
                                    !.name = s.name, !.root = s.root, !.env = s.env]
    /\ UNCHANGED <<jsons, media_moved, success_counter, error_counter, errorLog,
                   missingLog, pc, queue, idx, runNo, returned, runStart, singles,
                   passed, faults, last, progress>>

NextSearch == DoSearch

SpecSearch == InitSearch /\ [][NextSearch]_vars

-----------------------------------------------------------------------------
(* utils/metadata_enhanced.py : MetadataBackup, and the backup / restore operations
   of MediaProcessor *)

\* Path(p).name and Path(p).stem
BaseName(p) == IF HasChar(p, "/") THEN SubSeq(p, RFind(p, "/") + 1, Len(p)) ELSE p
PathStem(p) ==
    LET n == BaseName(p)
    IN  IF RFind(n, ".") > 1 THEN SubSeq(n, 1, RFind(n, ".") - 1) ELSE n

\* backup_name of create_backup; t is the clock second, standing for the
\* strftime("%Y%m%d_%H%M%S") text
BackupName(file_path, t) == PathStem(file_path) \o "_" \o IntToStr(t) \o ".json"

\* MetadataBackup.create_backup at second t: open(backup_path, 'w') replaces a
\* backup of the same name; [path, store]
create_backup(store, file_path, metadata, t) ==
    LET name == BackupName(file_path, t)
    IN  [path |-> name,
         store |-> {b \in store : b.name # name}
                   \cup {[name |-> name, original_file |-> file_path,
                           backup_date |-> t, metadata |-> metadata]}]

\* MetadataBackup.restore_from_backup: (original_file, metadata) of an existing backup
ReadBackup(store, backup_path) ==
    LET b == CHOOSE b \in store : b.name = backup_path
    IN  [original_file |-> b.original_file, metadata |-> b.metadata]

\* os.path.splitext(media_file)[1].lower()[1:]
SplitExt(media_file) == LowerExt(BaseName(media_file))

\* a path names an existing file: a media file of the base directory or a record
FileAt(f, js, path) == ExistsMedia(f, BaseDir, path) \/ path \in js

\* MediaProcessor.apply_metadata(media_file, metadata): every [ret, fs, exif, timed,
\* stage, env] the environment allows; exif / timed name the file whose EXIF block /
\* file times were written ("" when none was), stage the last step that was entered:
\* "extract", "convert", "exif" or "time"
apply_metadata(media_file, metadata, f, js, b) ==
    LET md == extract_metadata_from_json(metadata)
        none == [ret |-> FALSE, fs |-> f, exif |-> "", timed |-> "", stage |-> "extract",
                 env |-> 0]
        \* lines 477-484
        times(r, file) ==
            IF ~FileAt(r.fs, js, file) THEN {[r EXCEPT !.stage = "time"]}
            ELSE {IF bad THEN [r EXCEPT !.stage = "time", !.env = r.env + 1]
                  ELSE [r EXCEPT !.stage = "time", !.ret = TRUE, !.timed = file] :
                  bad \in Faulty(b - r.env)}
    IN  IF ExtractRaises(metadata) THEN {none}
        ELSE IF SplitExt(media_file) \in EXIF_SUPPORTED_FORMATS
        THEN IF ~ExistsMedia(f, BaseDir, media_file) THEN {[none EXCEPT !.stage = "convert"]}
             ELSE UNION {
                    LET c == convert_to_jpg_if_needed(f, BaseDir, media_file, mode)
                        r0 == [none EXCEPT !.fs = c.fs]
                    IN  IF AnyGeo(md.geo_data)
                        THEN UNION {IF bad THEN {[r0 EXCEPT !.stage = "exif", !.env = 1]}
                                    ELSE times([r0 EXCEPT !.exif = c.name], c.name) :
                                    bad \in Faulty(b)}
                        ELSE times(r0, c.name) : mode \in ImageModes}
                  \cup {[none EXCEPT !.stage = "convert", !.env = 1] :
                            x \in {y \in Faulty(b) : y}}
        ELSE times(none, media_file)

-----------------------------------------------------------------------------
(* backup_metadata and restore_from_backup on a directory of records and media *)

MaxBackups == 2
MaxClock == 2

\* the paths handed to backup_metadata: records, a media file, a path of no file
BackupRecords == {"a.jpg.json", "v.mp4.json", AlbumRecord}
BackupPaths == BackupRecords \cup {"a.jpg", "gone.json"}

NoBackup == "None"
NoRestore ==
    [done |-> FALSE, backup |-> "", ret |-> FALSE, original_file |-> "",
     metadata |-> <<>>, exif |-> "", timed |-> "", present |-> FALSE]

\* what apply_template last did: the media file, the result and the last step of
\* apply_metadata
NoTemplate == [done |-> FALSE, media_file |-> "", ret |-> FALSE, stage |-> "", timed |-> ""]

InitBackup ==
    /\ MainIdle
    /\ jsons \in SUBSET (BackupRecords \cup {SelfRecord})
    /\ fs \in SUBSET {[dir |-> BaseDir, name |-> n, id |-> n] : n \in {"a.jpg", "v.mp4"}}
    /\ media_moved = <<>>
    /\ probe = [op |-> "backup", store |-> {}, clock |-> 0, calls |-> 0,
                made |-> [file_path |-> "", result |-> NoBackup, metadata |-> <<>>],
                restore |-> NoRestore, applied |-> NoTemplate]

\* MediaProcessor.backup_metadata(file_path), the clock reading t or t + 1 by then:
\* open + json.load raise for a path that is no record, and the result is None
BackupMetadata(file_path) ==
    /\ probe.op = "backup"
    /\ probe.calls < MaxBackups
    /\ \E t \in {probe.clock, probe.clock + 1} :
          /\ t <= MaxClock
          /\ IF file_path \in jsons
             THEN LET c == create_backup(probe.store, file_path, RawOf(file_path), t)
                  IN  /\ probe' = [probe EXCEPT !.store = c.store, !.clock = t,
                                                !.calls = @ + 1,
                                                !.made = [file_path |-> file_path,
                                                          result |-> c.path,
                                                          metadata |-> RawOf(file_path)]]
                      /\ errorLog' = errorLog
             ELSE /\ probe' = [probe EXCEPT !.clock = t, !.calls = @ + 1,
                                            !.made = [file_path |-> file_path,
                                                      result |-> NoBackup,
                                                      metadata |-> <<>>]]
                  /\ errorLog' = errorLog \o <<"Failed to create backup">>
    /\ UNCHANGED <<fs, jsons, media_moved, success_counter, error_counter, missingLog,
                   pc, queue, idx, runNo, returned, runStart, singles, passed, faults,
                   last, progress>>

\* MediaProcessor.restore_from_backup(backup_path) on an existing backup
RestoreFromBackup(backup_path) ==
    /\ probe.op = "backup"
    /\ ~probe.restore.done
    /\ \E b \in probe.store : b.name = backup_path
    /\ LET pair == ReadBackup(probe.store, backup_path)
           title == extract_metadata_from_json(pair.metadata).title
       IN  \E r \in apply_metadata(pair.original_file, pair.metadata, fs, jsons,
                                    MaxFaults - faults) :
              /\ probe' = [probe EXCEPT !.restore =
                              [done |-> TRUE, backup |-> backup_path, ret |-> r.ret,
                               original_file |-> pair.original_file,
                               metadata |-> pair.metadata,
                               exif |-> r.exif, timed |-> r.timed,
                               present |-> /\ pair.original_file \in jsons
                                           /\ ExistsMedia(fs, BaseDir, title)]]
              /\ fs' = r.fs
              /\ faults' = faults + r.env
              /\ errorLog' = IF r.ret THEN errorLog
                             ELSE errorLog \o <<"Error setting file time">>
    /\ UNCHANGED <<jsons, media_moved, success_counter, error_counter, missingLog,
                   pc, queue, idx, runNo, returned, runStart, singles, passed,
                   last, progress>>

\* MediaProcessor.apply_template(media_file, template_name), the template holding
\* the metadata of a record
ApplyTemplate(media_file, template) ==
    /\ probe.op = "backup"
    /\ ~probe.applied.done
    /\ \E r \in apply_metadata(media_file, template, fs, jsons, MaxFaults - faults) :
          /\ probe' = [probe EXCEPT !.applied =
                          [done |-> TRUE, media_file |-> media_file, ret |-> r.ret,
                           stage |-> r.stage, timed |-> r.timed]]
          /\ fs' = r.fs
          /\ faults' = faults + r.env
          /\ errorLog' = IF r.ret THEN errorLog
                         ELSE errorLog \o <<"Failed to apply metadata">>
    /\ UNCHANGED <<jsons, media_moved, success_counter, error_counter, missingLog,
                   pc, queue, idx, runNo, returned, runStart, singles, passed,
                   last, progress>>

NextBackup ==
    \/ \E p \in BackupPaths : BackupMetadata(p)
    \/ \E media_file \in {"a.jpg", "v.mp4"}, j \in {"a.jpg.json", "v.mp4.json"} :
          ApplyTemplate(media_file, RawOf(j))
    \/ \E b \in {x.name : x \in probe.store} : RestoreFromBackup(b)
    \/ \E j \in jsons : probe.op = "backup" /\ ProcessSingle(j)

SpecBackup == InitBackup /\ [][NextBackup]_vars

-----------------------------------------------------------------------------
(* BatchProcessor.process_batch : one action per iteration of its loop *)

MaxBatch == 2

\* progress_callback: none given, one that returns, one that raises
Callbacks == {"none", "ok", "raises"}

\* an entry of results["failed"]: the bare path (msg = "") or (path, str(e))
FailedEntry(file_path, msg) == [path |-> file_path, msg |-> msg]

InitBatch ==
    /\ MainIdle
    /\ jsons \in SUBSET BackupRecords
    /\ fs \in SUBSET {[dir |-> BaseDir, name |-> n, id |-> n] : n \in {"a.jpg", "v.mp4"}}
    /\ media_moved = <<>>
    /\ \E files \in UNION {[1..k -> BackupPaths] : k \in 1..MaxBatch}, cb \in Callbacks :
          probe = [op |-> "batch", files |-> files, callback |-> cb, i |-> 0,
                   done |-> FALSE, successful |-> <<>>, failed |-> <<>>,
                   backups |-> <<>>, reports |-> <<>>, store |-> {}, clock |-> 0]

\* the records a result of the loop body carries on: [probe, r] with r the result of
\* process_json_file, or no r when the body raised before the call
BatchBody(file_path, t) ==
    IF EndsWith(file_path, ".json") /\ file_path \notin jsons
    THEN \* open(file_path) raises: lines 177-178
         {[called |-> FALSE, r |-> Blank(file_path, fs, jsons, media_moved),
           p |-> [probe EXCEPT !.failed = Append(@, FailedEntry(file_path, "open")),
                               !.clock = t]]}
    ELSE LET c == IF EndsWith(file_path, ".json")
                  THEN create_backup(probe.store, file_path, RawOf(file_path), t)
                  ELSE [path |-> "", store |-> probe.store]
             p0 == [probe EXCEPT !.store = c.store, !.clock = t,
                                 !.backups = IF c.path = "" THEN @ ELSE Append(@, c.path)]
         IN  {LET p1 == IF r.raised
                        THEN [p0 EXCEPT !.failed = Append(@, FailedEntry(file_path, "process"))]
                        ELSE IF r.ret
                        THEN [p0 EXCEPT !.successful = Append(@, file_path)]
                        ELSE [p0 EXCEPT !.failed = Append(@, FailedEntry(file_path, ""))]
              IN  [called |-> TRUE, r |-> r,
                   p |-> IF r.raised \/ probe.callback = "none" THEN p1
                         ELSE IF probe.callback = "ok"
                         THEN [p1 EXCEPT !.reports =
                                 Append(@, [num |-> probe.i + 1, den |-> Len(probe.files)])]
                         ELSE [p1 EXCEPT !.failed = Append(@, FailedEntry(file_path, "callback"))]] :
              r \in process_json_file(file_path, fs, jsons, media_moved, MaxFaults - faults)}

\* lines 157-178: the body of the loop for files[i]
BatchStep ==
    /\ probe.op = "batch"
    /\ ~probe.done
    /\ probe.i < Len(probe.files)
    /\ \E t \in {probe.clock, probe.clock + 1} :
          /\ t <= MaxClock
          /\ \E o \in BatchBody(probe.files[probe.i + 1], t) :
                /\ probe' = [o.p EXCEPT !.i = @ + 1]
                /\ IF o.called THEN Apply(o.r)
                   ELSE UNCHANGED <<fs, jsons, media_moved, success_counter, error_counter,
                                    errorLog, missingLog, faults, last>>
    /\ UNCHANGED <<pc, queue, idx, runNo, returned, runStart, singles, passed, progress>>

\* line 180: return results
BatchEnd ==
    /\ probe.op = "batch"
    /\ ~probe.done
    /\ probe.i = Len(probe.files)
    /\ probe' = [probe EXCEPT !.done = TRUE]
    /\ UNCHANGED mainVars

NextBatch == BatchStep \/ BatchEnd

SpecBatch == InitBatch /\ [][NextBatch]_vars

-----------------------------------------------------------------------------
(* utils/metadata_enhanced.py : MetadataTemplate, a directory of <name>.json files *)

MaxSaves == 3

\* template names: plain ones, the empty name, names with dots, and a name with a
\* directory part (no such subdirectory exists)
TemplateNames == {"a", "b", "", "a.b", ".h", "x/y"}

\* template_path relative to templates_dir
TemplateFile(name) == name \o ".json"

\* save_template(name, template) on the directory dir, a set of [file, content]:
\* open(template_path, 'w') raises when the directory part of the path is missing
save_template(dir, name, template) ==
    IF HasChar(name, "/") THEN [raised |-> TRUE, dir |-> dir]
    ELSE [raised |-> FALSE,
          dir |-> {e \in dir : e.file # TemplateFile(name)}
                  \cup {[file |-> TemplateFile(name), content |-> template]}]

\* load_template(name) of an existing template file
load_template(dir, name) == (CHOOSE e \in dir : e.file = TemplateFile(name)).content

\* list_templates(): the stems of the files templates_dir.glob("*.json") yields
list_templates(dir) == {PathStem(e.file) : e \in {x \in dir : EndsWith(x.file, ".json")}}

InitTemplates ==
    /\ MainIdle
    /\ fs = {}
    /\ jsons = {}
    /\ media_moved = <<>>
    /\ probe = [op |-> "templates", dir |-> {}, saved |-> <<>>, raised |-> FALSE]

\* one call save_template(name, template); saved keeps the calls that returned
SaveTemplate(name, template) ==
    /\ probe.op = "templates"
    /\ Len(probe.saved) < MaxSaves
    /\ LET r == save_template(probe.dir, name, template)
       IN  probe' = [probe EXCEPT !.dir = r.dir, !.raised = r.raised,
                                  !.saved = IF r.raised THEN @
                                            ELSE Append(@, [name |-> name,
                                                            template |-> template])]
    /\ UNCHANGED mainVars

NextTemplates == \E name \in TemplateNames, template \in {"t1", "t2"} : SaveTemplate(name, template)

SpecTemplates == InitTemplates /\ [][NextTemplates]_vars

-----------------------------------------------------------------------------
(* utils/metadata.py : set_exif_data, on coordinates of whole degrees and metres *)

\* convert_to_degrees(value, loc) with loc = [neg, pos]
convert_to_degrees(value, neg, pos) ==
    [degrees |-> IF value < 0 THEN -value ELSE value, minutes |-> 0, seconds |-> 0,
     loc_value |-> IF value < 0 THEN neg ELSE IF value > 0 THEN pos ELSE ""]

\* the gps_ifd that set_exif_data writes, rationals kept as [num, den]; piexif.dump
\* packs rationals as unsigned numbers, so a negative altitude may make it raise
set_exif_data(lat, lng, altitude) ==
    LET lat_deg == convert_to_degrees(lat, "S", "N")
        lng_deg == convert_to_degrees(lng, "W", "E")
        gps_ifd == [GPSAltitudeRef |-> 1,
                    GPSAltitude |-> [num |-> altitude, den |-> 1],
                    GPSLatitudeRef |-> lat_deg.loc_value,
                    GPSLatitude |-> [num |-> lat_deg.degrees, den |-> 1],
                    GPSLongitudeRef |-> lng_deg.loc_value,
                    GPSLongitude |-> [num |-> lng_deg.degrees, den |-> 1]]
    IN  {[raised |-> FALSE, gps |-> gps_ifd]}
        \cup (IF altitude < 0 THEN {[raised |-> TRUE, gps |-> <<>>]} ELSE {})

\* tests/utils/test_utils.py get_gps_data: the signed values read back from a GPS block
get_gps_data(gps) ==
    [latitude |-> IF gps.GPSLatitudeRef = "N" THEN gps.GPSLatitude.num \div gps.GPSLatitude.den
                  ELSE -(gps.GPSLatitude.num \div gps.GPSLatitude.den),
     longitude |-> IF gps.GPSLongitudeRef = "E" THEN gps.GPSLongitude.num \div gps.GPSLongitude.den
                   ELSE -(gps.GPSLongitude.num \div gps.GPSLongitude.den),
     altitude |-> IF gps.GPSAltitudeRef = 0 THEN gps.GPSAltitude.num \div gps.GPSAltitude.den
                  ELSE -(gps.GPSAltitude.num \div gps.GPSAltitude.den)]

InitExif ==
    /\ MainIdle
    /\ fs = {}
    /\ jsons = {}
    /\ media_moved = <<>>
    /\ \E lat \in {45, -45, 0, LatMax}, lng \in {-74, 2, 0, LonMax},
          altitude \in {10, 0, 1, 100, 250, -1, -5} :
          probe = [op |-> "exif", lat |-> lat, lng |-> lng, altitude |-> altitude,
                   done |-> FALSE, raised |-> FALSE, gps |-> <<>>]

\* one call set_exif_data(filepath, lat, lng, altitude, timestamp)
SetExif ==
    /\ probe.op = "exif"
    /\ ~probe.done
    /\ \E r \in set_exif_data(probe.lat, probe.lng, probe.altitude) :
          probe' = [probe EXCEPT !.done = TRUE, !.raised = r.raised, !.gps = r.gps]
    /\ UNCHANGED mainVars

SpecExif == InitExif /\ [][SetExif]_vars

-----------------------------------------------------------------------------
(* fix_title on its own: every title of up to MaxTitleLen characters *)

MaxTitleLen == 3

\* the titles of at most n characters over letters, the dot and incompatible characters
RECURSIVE Titles(_)
Titles(n) ==
    IF n = 0 THEN {""}
    ELSE Titles(n - 1)
         \cup {t \o c : t \in Titles(n - 1), c \in {"a", ".", "?", "%", "'", "\\"}}

InitFix ==
    /\ MainIdle
    /\ fs = {}
    /\ jsons = {}
    /\ media_moved = <<>>
    /\ \E title \in Titles(MaxTitleLen) :
          probe = [op |-> "fix", title |-> title, calls |-> 0, once |-> title,
                   result |-> title]

\* fix_title applied to the title, then to its own result
ApplyFix ==
    /\ probe.op = "fix"
    /\ probe.calls < 2
    /\ probe' = [probe EXCEPT !.calls = @ + 1, !.result = fix_title(probe.result),
                              !.once = IF probe.calls = 0 THEN fix_title(probe.result)
                                       ELSE @]
    /\ UNCHANGED mainVars

SpecFix == InitFix /\ [][ApplyFix]_vars

-----------------------------------------------------------------------------
(* safe_move_file on its own: every script of attempt outcomes, the source and the
   destination present or not, the two paths equal or not *)

InitMove ==
    /\ MainIdle
    /\ fs \in SUBSET ({[dir |-> BaseDir, name |-> "a.jpg", id |-> "a.jpg"]} \cup EarlierFiles)
    /\ jsons = {}
    /\ media_moved = <<>>
    /\ \E sd \in {BaseDir, MatchedDir, EditedDir}, script \in MoveScripts :
          probe = [op |-> "move", sd |-> sd, script |-> script, done |-> FALSE,
                   before |-> fs, ok |-> FALSE, attempts |-> 0]

\* one call safe_move_file(sd/a.jpg, MatchedMedia/a.jpg)
DoMove ==
    /\ probe.op = "move"
    /\ ~probe.done
    /\ LET r == MoveLoop(fs, probe.sd, "a.jpg", MatchedDir, "a.jpg", probe.script, 0, FALSE)
       IN  /\ fs' = r.fs
           /\ probe' = [probe EXCEPT !.done = TRUE, !.ok = r.ok, !.attempts = r.attempts]
    /\ UNCHANGED <<jsons, media_moved, success_counter, error_counter, errorLog,
                   missingLog, pc, queue, idx, runNo, returned, runStart, singles,
                   passed, faults, last, progress>>

SpecMove == InitMove /\ [][DoMove]_vars

-----------------------------------------------------------------------------
(* MetadataValidator.validate_metadata on its own: records of every shape *)

\* the values a scalar field of a record can hold: numbers (or strings that parse as
\* numbers) on both sides of each limit, an unparsable string, null, no such key
TimestampValues ==
    {Num(16000000), Num(0), Num(TsMax), Num(-1), Num(TsMax + 1), BadStr, Null, Absent}
LatitudeValues == {Num(45), Num(LatMin), Num(LatMax), Num(LatMin - 1), Num(200), BadStr, Absent}
LongitudeValues == {Num(2), Num(LonMax), Num(LonMin - 1), Num(LonMax + 1), Null, Absent}
AltitudeValues == {Num(0), Num(-5), Num(100000)}
FieldShapes == {"dict", "missing", "other"}

RawRecords ==
    [title : {[k |-> "str", v |-> "a.jpg"], [k |-> "missing", v |-> ""],
              [k |-> "other", v |-> ""]},
     photoTakenTime : FieldShapes, timestamp : TimestampValues, formatted : BOOLEAN,
     geoData : FieldShapes, latitude : LatitudeValues, longitude : LongitudeValues,
     altitude : AltitudeValues]

InitValidate ==
    /\ MainIdle
    /\ fs = {}
    /\ jsons = {}
    /\ media_moved = <<>>
    /\ \E raw \in RawRecords :
          probe = [op |-> "validate", raw |-> raw, done |-> FALSE,
                   result |-> [raised |-> FALSE, is_valid |-> FALSE,
                               errors |-> <<>>, warnings |-> <<>>],
                   extracted |-> [done |-> FALSE, raised |-> FALSE, metadata |-> <<>>]]

\* one call of MetadataValidator.validate_metadata(metadata)
DoValidate ==
    /\ probe.op = "validate"
    /\ ~probe.done
    /\ probe' = [probe EXCEPT !.done = TRUE, !.result = validate_metadata(probe.raw)]
    /\ UNCHANGED mainVars

\* one call of extract_metadata_from_json(json_data)
DoExtract ==
    /\ probe.op = "validate"
    /\ ~probe.extracted.done
    /\ probe' = [probe EXCEPT !.extracted =
                    IF ExtractRaises(probe.raw)
                    THEN [done |-> TRUE, raised |-> TRUE, metadata |-> <<>>]
                    ELSE [done |-> TRUE, raised |-> FALSE,
                          metadata |-> extract_metadata_from_json(probe.raw)]]
    /\ UNCHANGED mainVars

NextValidate == DoValidate \/ DoExtract

SpecValidate == InitValidate /\ [][NextValidate]_vars

-----------------------------------------------------------------------------
(* Claims *)

\* the name <stem>(n).<ext> of a title, the extension being what follows the last dot
DisambiguatedForm(title, n) ==
    StemOf(title) \o "(" \o IntToStr(n) \o ")" \o "." \o ExtOf(title)

NamesDone == probe.op = "names" /\ probe.calls >= 1

\* C10: check_if_same_name(title, title, ledger, 1) returns the title itself when the
\* title is not in the ledger, and otherwise <stem>(n).<ext> for the lowest n >= 1
\* whose name is not in the ledger; with ledger {file.jpg} the title file.jpg gives
\* file(1).jpg, and with file(1).jpg in the ledger too it gives file(2).jpg; the
\* returned name is never a member of the ledger.
C10_DisambiguationLowestFree ==
    NamesDone =>
        /\ ~InList(probe.result, probe.before)
        /\ ~InList(probe.title, probe.before) => probe.result = probe.title
        /\ InList(probe.title, probe.before) =>
              \E n \in 1..(Len(probe.before) + 1) :
                 /\ probe.result = DisambiguatedForm(probe.title, n)
                 /\ \A m \in 1..(n - 1) :
                       InList(DisambiguatedForm(probe.title, m), probe.before)
        /\ (probe.title = "file.jpg" /\ probe.before = <<"file.jpg">>)
              => probe.result = "file(1).jpg"
        /\ (probe.title = "file.jpg" /\ probe.before = <<"file.jpg", "file(1).jpg">>)
              => probe.result = "file(2).jpg"

\* C10 witness: the second resolution of file.jpg, both file.jpg and file(1).jpg
\* being in the ledger, has given file(2).jpg
C10_Witness ==
    /\ NamesDone
    /\ probe.title = "file.jpg"
    /\ probe.before = <<"file.jpg", "file(1).jpg">>
    /\ probe.result = "file(2).jpg"

SearchDone == probe.op = "search" /\ probe.done

\* the title as search_media_file sees it, and its edited name
ProbedTitle == fix_title(probe.title)
ProbedEdited == EditedName(StemOf(ProbedTitle), ExtOf(ProbedTitle))

\* both the edited version and the plain original were in the base directory
BothInBase ==
    /\ SearchDone
    /\ ExistsMedia(probe.before, BaseDir, ProbedEdited)
    /\ ExistsMedia(probe.before, BaseDir, ProbedTitle)

\* the file that was the plain original in the base directory is now at dir/title
OriginalNowIn(d) ==
    \E e \in fs : /\ e.dir = d
                  /\ e.name = ProbedTitle
                  /\ e.id = EntryAt(probe.before, BaseDir, ProbedTitle).id

\* C3 as stated: with <stem>-<editedSuffix>.<ext> and <stem>.<ext> both in the
\* primary directory, search_media_file returns the edited name and the original is
\* afterwards in EditedRaw and no longer in the primary directory.
C3_OriginalAlwaysPreserved ==
    BothInBase =>
        /\ probe.found /\ probe.name = ProbedEdited
        /\ OriginalNowIn(EditedDir)
        /\ ~ExistsMedia(fs, BaseDir, ProbedTitle)

\* C3 amended: the edited name is returned and the move of the original to EditedRaw
\* is attempted; when the environment does not make that move fail the original is
\* afterwards in EditedRaw and not in the primary directory, and when the move fails
\* the original is still in the primary directory; it is never deleted.
C3_EditedWinsOriginalKept ==
    BothInBase =>
        /\ probe.found /\ probe.name = ProbedEdited /\ probe.root = BaseDir
        /\ \/ OriginalNowIn(EditedDir) /\ ~ExistsMedia(fs, BaseDir, ProbedTitle)
           \/ OriginalNowIn(BaseDir) /\ probe.env = 1
        /\ probe.env = 0 => OriginalNowIn(EditedDir)

\* C3 witness: both files were in the base directory, the edited name was returned
\* and the original was moved to EditedRaw
C3_Witness ==
    /\ BothInBase
    /\ probe.name = ProbedEdited
    /\ OriginalNowIn(EditedDir)
    /\ ~ExistsMedia(fs, BaseDir, ProbedTitle)

\* the candidate names of a title in priority order: edited, (1), plain,
\* ledger-disambiguated, then the same four for the truncated stem
CandidateNames(title, moved) ==
    LET name == StemOf(title)
        ext == ExtOf(title)
        short == SubSeq(name, 1, TruncLen)
    IN  <<EditedName(name, ext), AltName(name, ext), title,
          check_if_same_name(title, title, moved, 1)>>
        \o (IF Len(name) > TruncLen
            THEN <<EditedName(short, ext), AltName(short, ext), ShortTitle(name, ext),
                   check_if_same_name(ShortTitle(name, ext), ShortTitle(name, ext), moved, 1)>>
            ELSE <<>>)

\* the pairs <<k, i>> such that candidate i is present in search path k (the (1)
\* candidate counts only when no correspondingly numbered sidecar lies beside it)
HitsAmong(names, title) ==
    {h \in (1..Len(SearchPaths)) \X (1..Len(names)) :
        /\ PathExists(probe.before, jsons, SearchPaths[h[1]], names[h[2]])
        /\ h[2] = 2 => ~PathExists(probe.before, jsons, SearchPaths[h[1]],
                                   title \o "(1).json")}

\* C4 as stated: the returned name is the highest-priority candidate present in any
\* of the three search paths, and None is returned only when none is present.
C4_PriorityAcrossAllRoots ==
    SearchDone =>
        LET title == ProbedTitle
            names == CandidateNames(title, media_moved)
            hits == HitsAmong(names, title)
        IN  /\ ~probe.found => hits = {}
            /\ probe.found =>
                  \E h \in hits :
                     /\ probe.name = names[h[2]]
                     /\ \A g \in hits : h[2] <= g[2]

\* C4 amended: the search paths are tried in the order primary, MatchedMedia,
\* EditedRaw, and inside each the candidates in priority order; the result is the
\* highest-priority candidate of the first search path that holds any candidate (a
\* plain original in the primary directory wins over an edited version in
\* MatchedMedia), and None is returned exactly when no search path holds one.
C4_PriorityWithinFirstRoot ==
    SearchDone =>
        LET title == ProbedTitle
            names == CandidateNames(title, media_moved)
            hits == HitsAmong(names, title)
        IN  /\ ~probe.found <=> hits = {}
            /\ probe.found =>
                  \E h \in hits :
                     /\ probe.name = names[h[2]]
                     /\ probe.root = SearchPaths[h[1]]
                     /\ \A g \in hits : h[1] < g[1] \/ (h[1] = g[1] /\ h[2] <= g[2])

\* C4 witness: the plain original of the primary directory was returned although an
\* edited version lay in MatchedMedia
C4_Witness ==
    /\ SearchDone
    /\ probe.found /\ probe.name = ProbedTitle /\ probe.root = BaseDir
    /\ ExistsMedia(probe.before, MatchedDir, ProbedEdited)

-----------------------------------------------------------------------------
(* Claims about process_json_file and process_all *)

\* a step that is one process_json_file call on a record present in the base directory
CallOnRecord == last'.n = last.n + 1 /\ last'.json \in jsons

\* the call of this step has moved the located media file into MatchedMedia
MovedIntoMatched ==
    /\ last'.moveTried
    /\ last'.root # MatchedDir
    /\ ExistsMedia(fs, last'.root, last'.resolved)
    /\ \E e \in fs' : /\ e.dir = MatchedDir
                      /\ e.name = last'.final
                      /\ e.id = EntryAt(fs, last'.root, last'.resolved).id

\* C1: in process_json_file the .json record is deleted and the resolved filename is
\* appended to the moved ledger if and only if the media file was successfully moved
\* into MatchedMedia; when the move fails the record is left in place, the ledger is
\* unchanged, the error counter is incremented and False is returned.
C1_RecordDeletedIffMoved ==
    [][CallOnRecord =>
          /\ (last'.json \notin jsons') <=> MovedIntoMatched
          /\ (media_moved' = Append(media_moved, last'.resolved)) <=> MovedIntoMatched
          /\ (last'.moveTried /\ ~MovedIntoMatched) =>
                /\ jsons' = jsons
                /\ media_moved' = media_moved
                /\ error_counter' = error_counter + 1
                /\ ~last'.ret]_vars

\* the raw latitude of a record lies outside [-90, 90]
LatitudeOutOfRange(raw) ==
    /\ raw.latitude.k = "num"
    /\ (raw.latitude.v < LatMin \/ raw.latitude.v > LatMax)

\* C5: a record whose geoData.latitude is out of range (200) is rejected by validation
\* before any file is touched: process_json_file returns False, the error counter
\* grows by exactly one, no media file is moved, renamed or modified, the record is
\* not deleted and the moved ledger is unchanged.
C5_OutOfRangeLatitudeRejected ==
    [][(CallOnRecord /\ LatitudeOutOfRange(JsonTable[last'.json])) =>
          /\ ~last'.ret
          /\ last'.outcome = "ValidationFailed"
          /\ error_counter' = error_counter + 1
          /\ success_counter' = success_counter
          /\ fs' = fs
          /\ jsons' = jsons
          /\ media_moved' = media_moved]_vars

\* C5 witness: the record bad.json (latitude 200, title a.jpg) has been rejected while
\* a.jpg lies in the base directory, and both are still there
C5_Witness ==
    /\ last.n >= 1
    /\ last.json = "bad.json"
    /\ last.outcome = "ValidationFailed"
    /\ ~last.ret
    /\ error_counter >= 1
    /\ "bad.json" \in jsons
    /\ ExistsMedia(fs, BaseDir, "a.jpg")

\* the last call resolved its media file, found it on disk and accessible, and the
\* file has an extension of EXIF_SUPPORTED_FORMATS
AppliedToSupported ==
    /\ last.n >= 1
    /\ last.root # ""
    /\ last.outcome # "FileInvalid"
    /\ LowerExt(last.resolved) \in EXIF_SUPPORTED_FORMATS

\* C6: metadata application is best-effort: for a resolved, existing, writable file of
\* a supported format no failure inside the metadata step (color/format normalization,
\* EXIF write, file-time write) blocks the relocation; the file times are still
\* attempted and the move into MatchedMedia is still made.
C6_ApplyNeverBlocksRelocation ==
    AppliedToSupported => (last.timeTried /\ last.moveTried)

\* q lists every element of the set S exactly once
ListsOnce(q, S) ==
    /\ Len(q) = Cardinality(S)
    /\ \A x \in S : \E i \in 1..Len(q) : q[i] = x

\* C7: no per-record failure aborts a directory run: process_all passes every
\* enumerated record to process_json_file exactly once, in the order of its list,
\* however earlier records ended, and always returns the pair of counters.
C7_RunNeverAborted ==
    /\ pc # "aborted"
    /\ runNo >= 1 => ListsOnce(queue, runStart.jsons)
    /\ pc = "running" => (idx <= Len(queue) /\ passed = SubSeq(queue, 1, idx))
    /\ (pc = "idle" /\ runNo >= 1) =>
          /\ passed = queue
          /\ Len(returned) = runNo
          /\ returned[runNo] = <<success_counter, error_counter>>
          /\ success_counter + error_counter = Len(queue)

\* C7 witness: a finished run over two records whose first record, null.json, raised
\* inside validation (latitude null) and whose second record was still processed
C7_Witness ==
    /\ pc = "idle"
    /\ runNo >= 1
    /\ Len(passed) = 2
    /\ passed[1] = "null.json"
    /\ last.json = passed[2]
    /\ error_counter >= 1
    /\ Len(returned) = runNo

\* the outcomes of a call that the code reports through the error log
ErrorLogged == {"ValidationFailed", "Unexpected", "ConvertFailed", "MoveFailed",
                "DeleteFailed"}

\* the outcomes of a call that the code reports through the missing-files log
MissingLogged == {"NotFound", "FileMissing", "FileInvalid"}

\* C8 (as stated): every failure that occurs while processing a record
\* (ValidationFailed, NotFound, ApplyFailed, MoveFailed, UnexpectedFailure) increments
\* the error counter and writes an entry to the error log.
C8_EveryFailureCountedAndLogged ==
    [][(CallOnRecord /\ (~last'.ret \/ last'.exifFailed \/ last'.timeFailed)) =>
          /\ error_counter' = error_counter + 1
          /\ Len(errorLog') > Len(errorLog)]_vars

\* C8 (amended): a record that ends ValidationFailed, MoveFailed, UnexpectedFailure or
\* with a failed image conversion increments the error counter and writes to the error
\* log; a record that ends NotFound, or whose resolved file is missing or inaccessible,
\* increments the error counter and writes one line to the missing-files log and none
\* to the error log; a failed EXIF or file-time write writes to the error log and
\* leaves the error counter to the outcome of the move.
C8_FailuresByCategory ==
    [][CallOnRecord =>
          /\ last'.outcome \in ErrorLogged =>
                /\ error_counter' = error_counter + 1
                /\ Len(errorLog') > Len(errorLog)
          /\ last'.outcome \in MissingLogged =>
                /\ error_counter' = error_counter + 1
                /\ errorLog' = errorLog
                /\ Len(missingLog') = Len(missingLog) + 1
          /\ (last'.exifFailed \/ last'.timeFailed) => Len(errorLog') > Len(errorLog)
          /\ last'.outcome = "Success" =>
                /\ error_counter' = error_counter
                /\ success_counter' = success_counter + 1
          /\ ~last'.ret <=> last'.outcome \in (ErrorLogged \cup MissingLogged)]_vars

\* C8 witness: inside a run one record ended NotFound (missing-files log only) and a
\* later one was relocated although its file-time write failed (error log only)
C8_Witness ==
    /\ pc = "running"
    /\ idx = 2
    /\ last.outcome = "Success"
    /\ last.timeFailed
    /\ error_counter = 1
    /\ success_counter = 1
    /\ Len(missingLog) = 2
    /\ Len(errorLog) = 2

\* C9: the missing-files log receives exactly one entry, the record's title, for each
\* record whose resolution ended NotFound, and no entry for any other outcome (in
\* particular not for a record whose file was resolved but then failed a later step).
C9_MissingLogOnlyNotFound ==
    [][CallOnRecord =>
          IF last'.outcome = "NotFound"
          THEN missingLog' = Append(missingLog, last'.title)
          ELSE missingLog' = missingLog]_vars

\* two process_directory calls have returned, nothing else having touched the
\* directory between them
TwoRunsDone == runNo = 2 /\ pc = "idle" /\ Len(returned) = 2

TruncatedNames(title, moved) ==
    LET name == StemOf(title)
        ext == ExtOf(title)
        short == SubSeq(name, 1, TruncLen)
        short_title == ShortTitle(name, ext)
    IN  {short_title, EditedName(short, ext), AltName(short, ext),
         check_if_same_name(short_title, short_title, moved, 1)}

\* C11: for a title whose stem, after the stripping of the illegal characters, is
\* longer than 47 characters and whose only existing file is saved under the stem
\* cut to its first 47 characters (plain, edited, (1) or disambiguated),
\* search_media_file returns that file's name and not None.
C11_TruncationFallback ==
    SearchDone =>
        LET title == ProbedTitle
        IN  (/\ Len(StemOf(title)) > TruncLen
             /\ Cardinality(probe.before) = 1
             /\ \E e \in probe.before : e.name \in TruncatedNames(title, media_moved))
            => /\ probe.found
               /\ \E e \in probe.before : probe.name = e.name /\ probe.root = e.dir
               /\ fs = probe.before

\* C11 witness: the long title was resolved to <cut stem>(2).jpg lying alone in
\* MatchedMedia, the ledger holding the cut title and its (1) name
C11_Witness ==
    /\ SearchDone
    /\ probe.title = LongTitle
    /\ media_moved = <<ShortenedTitle, SuffixedName(ShortenedTitle, 1)>>
    /\ probe.before = {[dir |-> MatchedDir, name |-> SuffixedName(ShortenedTitle, 2),
                        id |-> MatchedDir \o "/" \o SuffixedName(ShortenedTitle, 2)]}
    /\ probe.found
    /\ probe.name = SuffixedName(ShortenedTitle, 2)

\* C12: process_all processes the pending records in non-decreasing order of record
\* filename length: of any two records of a run, the one with the strictly shorter
\* filename is passed to process_json_file first.
C12_ShorterNamesFirst ==
    /\ \A i, j \in 1..Len(passed) : i < j => Len(passed[i]) <= Len(passed[j])
    /\ \A i \in 1..Len(passed) : \A j \in (Len(passed) + 1)..Len(queue) :
          pc = "running" => Len(passed[i]) <= Len(queue[j])

\* C12 witness: a finished run that processed q.json before a.jpg(1).json
C12_Witness ==
    /\ pc = "idle"
    /\ runNo >= 1
    /\ passed = <<"q.json", "a.jpg(1).json">>
    /\ Len(returned) = runNo

\* C13: in a process_all run over n records the progress callback is invoked exactly
\* n times, once immediately before each record is processed; the k-th invocation
\* (k = 0..n-1) carries percentComplete = 100*k/n and the success and error counts
\* accumulated over the k records already processed, so the reported percentage is
\* strictly increasing, starts at 0 and never reaches 100.
C13_ProgressBeforeEachRecord ==
    LET n == Len(queue)
    IN  /\ Len(progress) = Len(passed)
        /\ (pc = "idle" /\ runNo >= 1) => Len(progress) = n
        /\ \A k \in 1..Len(progress) :
              /\ progress[k].percent.num * n = 100 * (k - 1) * progress[k].percent.den
              /\ progress[k].percent.num < 100 * progress[k].percent.den
              /\ progress[k].success + progress[k].error = k - 1
              /\ k = 1 => progress[k].percent.num = 0
              /\ k > 1 =>
                    /\ progress[k - 1].percent.num * progress[k].percent.den
                          < progress[k].percent.num * progress[k - 1].percent.den
                    /\ progress[k - 1].success <= progress[k].success
                    /\ progress[k - 1].error <= progress[k].error
              /\ k = Len(progress) =>
                    /\ progress[k].success <= success_counter
                    /\ progress[k].error <= error_counter
                    /\ success_counter + error_counter \in {k - 1, k}

\* C13 witness: a finished run over two records, the first relocated and the second
\* failed, whose callback saw (0, 0, 0) and then (50, 1, 0)
C13_Witness ==
    /\ pc = "idle"
    /\ runNo >= 1
    /\ Len(queue) = 2
    /\ progress = <<[percent |-> [num |-> 0, den |-> 2], success |-> 0, error |-> 0],
                    [percent |-> [num |-> 100, den |-> 2], success |-> 1, error |-> 0]>>
    /\ success_counter = 1
    /\ error_counter = 1

\* C14: a directory run interrupted between two records leaves no record partially
\* committed: at every record boundary of a run the record just handled has its
\* .json absent from the input directory if and only if its media file has been
\* relocated into MatchedMedia, every other record is as it was, and a deleted
\* .json is the last thing the record's processing did (it ended in success).
C14_NoPartialCommit ==
    [][(pc = "running" /\ CallOnRecord) =>
          /\ (last'.json \notin jsons') <=> MovedIntoMatched
          /\ jsons' \ {last'.json} = jsons \ {last'.json}
          /\ (last'.json \notin jsons') => (last'.outcome = "Success" /\ last'.ret)]_vars

\* validate_metadata has returned a result for the probed record
Validated == probe.op = "validate" /\ probe.done /\ ~probe.result.raised

\* the field is a number outside [lo, hi]
NumberOutside(v, lo, hi) == v.k = "num" /\ (v.v < lo \/ v.v > hi)

\* C15: validation rejects a record exactly when at least one error was found
\* (is_valid iff the errors list is empty); a latitude outside [-90, 90] or a
\* longitude outside [-180, 180] produces an error; a timestamp that parses as an
\* integer but lies outside [0, 4102444800] produces only a warning and never makes
\* the record invalid (the verdict and the errors are those of the same record with
\* an in-range timestamp).
C15_ErrorsRejectWarningsDoNot ==
    Validated =>
        LET raw == probe.raw
            res == probe.result
            inRange == validate_metadata([raw EXCEPT !.timestamp = Num(16000000)])
        IN  /\ res.is_valid <=> res.errors = <<>>
            /\ NumberOutside(GeoField(raw, "latitude"), LatMin, LatMax) =>
                  (res.errors # <<>> /\ ~res.is_valid)
            /\ NumberOutside(GeoField(raw, "longitude"), LonMin, LonMax) =>
                  (res.errors # <<>> /\ ~res.is_valid)
            /\ NumberOutside(TsField(raw), 0, TsMax) =>
                  /\ res.warnings # <<>>
                  /\ res.errors = inRange.errors
                  /\ res.is_valid = inRange.is_valid
            /\ res.warnings # <<>> => NumberOutside(TsField(raw), 0, TsMax)

\* C15 witness: a record whose only defect is a timestamp after the year 2100 was
\* found valid, with a warning
C15_Witness ==
    /\ Validated
    /\ probe.raw.timestamp = Num(TsMax + 1)
    /\ probe.raw.photoTakenTime = "dict"
    /\ probe.result.is_valid
    /\ probe.result.errors = <<>>
    /\ probe.result.warnings # <<>>

\* the record has exactly the documented shape: a string title, photoTakenTime
\* holding a timestamp (a string of unix seconds) and nothing else, geoData with
\* in-range latitude, longitude and altitude
DocumentedShape(raw) ==
    /\ raw.title.k = "str"
    /\ raw.photoTakenTime = "dict"
    /\ raw.timestamp.k = "num" /\ 0 <= raw.timestamp.v /\ raw.timestamp.v <= TsMax
    /\ ~raw.formatted
    /\ raw.geoData = "dict"
    /\ raw.latitude.k = "num" /\ LatMin <= raw.latitude.v /\ raw.latitude.v <= LatMax
    /\ raw.longitude.k = "num" /\ LonMin <= raw.longitude.v /\ raw.longitude.v <= LonMax
    /\ raw.altitude.k = "num"

\* C16: a metadata record that has exactly the shape of the documented input format
\* (and whose file is a readable, writable regular file) passes validation with no
\* errors.
C16_DocumentedRecordIsValid ==
    (probe.op = "validate" /\ probe.done /\ DocumentedShape(probe.raw)) =>
        /\ ~probe.result.raised
        /\ probe.result.is_valid
        /\ probe.result.errors = <<>>

\* the record's title names a media file lying in one of the three search paths
TitleFileExists(f, j) ==
    \E k \in 1..Len(SearchPaths) :
       ExistsMedia(f, SearchPaths[k], JsonTable[j].title.v)

\* the record passes validate_metadata
RecordValid(j) ==
    /\ ~validate_metadata(JsonTable[j]).raised
    /\ validate_metadata(JsonTable[j]).is_valid

\* MatchedMedia holds a file that at the start of the run was the record's media
\* file: the file named by the title, or its edited or (1) version
MediaOfRecordMatched(j) ==
    LET title == JsonTable[j].title.v
        own == {title, EditedName(StemOf(title), ExtOf(title)),
                AltName(StemOf(title), ExtOf(title))}
    IN  \E e \in fs : /\ e.dir = MatchedDir
                      /\ \E e0 \in runStart.fs : e0.id = e.id /\ e0.name \in own

\* C17: if every pending record is valid and its title names a media file that
\* exists in one of the three search roots, then after process_all no .json record
\* remains in the input directory, the media file of every record is in
\* MatchedMedia, and the run returns successCount = number of records, errorCount = 0
\* (the environment raising nothing during the run).
C17_AllResolvableRecordsRelocated ==
    (/\ runNo = 1 /\ pc = "idle" /\ Len(returned) = 1
     /\ faults = 0
     /\ \A j \in runStart.jsons : RecordValid(j) /\ TitleFileExists(runStart.fs, j))
    => /\ jsons = {}
       /\ \A j \in runStart.jsons : MediaOfRecordMatched(j)
       /\ returned[1] = <<Cardinality(runStart.jsons), 0>>

\* the restore that directly follows the backup that made its file, on a directory
\* that still holds the record and the media file it names, nothing failing
RestoredAfterBackup ==
    /\ probe.op = "backup"
    /\ probe.restore.done
    /\ probe.made.result = probe.restore.backup
    /\ probe.restore.present
    /\ faults = 0

\* C18: backup_metadata(path) followed by restore_from_backup(backupPath) reads back
\* the pair (original file path, metadata) that was stored, applies that metadata to
\* the media file the record describes, and returns True.
C18_RestoreReappliesToMedia ==
    RestoredAfterBackup =>
        /\ probe.restore.original_file = probe.made.file_path
        /\ probe.restore.metadata = probe.made.metadata
        /\ probe.restore.ret
        /\ probe.restore.timed = extract_metadata_from_json(probe.made.metadata).title

\* q.count(file_path)
RECURSIVE CountPaths(_, _)
CountPaths(q, file_path) ==
    IF q = <<>> THEN 0
    ELSE (IF Head(q) = file_path THEN 1 ELSE 0) + CountPaths(Tail(q), file_path)

FailedPaths == [k \in 1..Len(probe.failed) |-> probe.failed[k].path]

\* C19: process_batch returns a partition of its input: whatever the callback does,
\* each occurrence of an input path is in exactly one of successful and failed.
C19_BatchResultIsPartition ==
    (probe.op = "batch" /\ probe.done) =>
        \A file_path \in BackupPaths :
            CountPaths(probe.successful, file_path) + CountPaths(FailedPaths, file_path)
                = CountPaths(probe.files, file_path)

\* C20: every create_backup call writes a new file and leaves the existing ones
\* alone: the k backups a batch has made so far are k distinct backup files.
C20_BackupsAppendOnly ==
    probe.op = "batch" => Cardinality(probe.store) = Len(probe.backups)

\* the template of the most recent save under name
RECURSIVE LastSaved(_, _)
LastSaved(saved, name) ==
    IF saved[Len(saved)].name = name THEN saved[Len(saved)].template
    ELSE LastSaved(SubSeq(saved, 1, Len(saved) - 1), name)

SavedNames == {probe.saved[k].name : k \in 1..Len(probe.saved)}

\* C21: the template store is a last-write-wins map keyed by name: load_template
\* returns the template of the most recent save under the name, and list_templates
\* returns exactly the names saved so far.
C21_TemplateStoreIsMap ==
    probe.op = "templates" =>
        /\ \A name \in SavedNames :
              load_template(probe.dir, name) = LastSaved(probe.saved, name)
        /\ list_templates(probe.dir) = SavedNames

\* the last call located its media file and found it accessible
MediaHandled == last.outcome \in {"Success", "MoveFailed", "DeleteFailed", "ConvertFailed"}

\* set_exif_data returned: the GPS fields are in the file
GpsWritten == last.exifTried /\ ~last.exifFailed

ExtSupported == LowerExt(last.resolved) \in EXIF_SUPPORTED_FORMATS

\* at least one of latitude, longitude, altitude of the record is a nonzero number
RecordGeoNonzero ==
    LET raw == RawOf(last.json)
    IN  \/ raw.latitude.k = "num" /\ raw.latitude.v # 0
        \/ raw.longitude.k = "num" /\ raw.longitude.v # 0
        \/ raw.altitude.k = "num" /\ raw.altitude.v # 0

\* C22 as stated: GPS fields are written to the media file if and only if its
\* extension is supported and at least one geo field of the record is nonzero.
C22_GpsWrittenIffSupportedNonzero ==
    MediaHandled => (GpsWritten <=> (ExtSupported /\ RecordGeoNonzero))

\* C22 amended: GPS fields are written only to a file of a supported extension whose
\* record has a nonzero geo field; once the image was opened (and converted) the write
\* is attempted exactly in that case, and it can fail, which leaves the file without
\* GPS fields; a record whose geo fields are all zero never has the write attempted.
C22_GpsWrittenOnlyIfSupportedNonzero ==
    MediaHandled =>
        /\ GpsWritten => (ExtSupported /\ RecordGeoNonzero)
        /\ last.timeTried => (last.exifTried <=> (ExtSupported /\ RecordGeoNonzero))
        /\ ~RecordGeoNonzero => ~last.exifTried

C22_Witness == MediaHandled /\ GpsWritten /\ last.outcome = "Success"

\* C23: set_exif_data writes the altitude reference 0 for an altitude >= 0 and 1 for
\* an altitude < 0, so that reading the GPS fields back gives the signed altitude.
C23_AltitudeRefFromSign ==
    (probe.op = "exif" /\ probe.done /\ ~probe.raised) =>
        /\ probe.gps.GPSAltitudeRef = (IF probe.altitude >= 0 THEN 0 ELSE 1)
        /\ get_gps_data(probe.gps).altitude = probe.altitude

\* t without its characters of the incompatible set, the others in their order
RECURSIVE Compatible(_)
Compatible(t) ==
    IF t = "" THEN ""
    ELSE (IF InList(CharAt(t, 1), IncompatibleChars) THEN "" ELSE CharAt(t, 1))
         \o Compatible(SubSeq(t, 2, Len(t)))

\* C24: fix_title removes every occurrence of each incompatible character and nothing
\* else, the remaining characters keeping their order, and it is idempotent.
C24_FixTitleStripsAndIsIdempotent ==
    (probe.op = "fix" /\ probe.calls >= 1) =>
        /\ probe.once = Compatible(probe.title)
        /\ \A k \in 1..Len(probe.once) : ~InList(CharAt(probe.once, k), IncompatibleChars)
        /\ probe.result = probe.once

C24_Witness ==
    /\ probe.op = "fix"
    /\ probe.calls = 2
    /\ probe.once # probe.title
    /\ probe.once # ""
    /\ HasChar(probe.title, "%")

\* C25: the truncated pass of search_media_file applies the conditions of the full
\* pass: the truncated (1) candidate is accepted only if no correspondingly numbered
\* sidecar <truncated title>(1).json lies beside it.
C25_TruncatedAltNeedsNoSidecar ==
    SearchDone =>
        LET title == ProbedTitle
            short == SubSeq(StemOf(title), 1, TruncLen)
        IN  (/\ Len(StemOf(title)) > TruncLen
             /\ probe.found
             /\ probe.name = AltName(short, ExtOf(title))
             /\ probe.root = BaseDir)
            => (ShortTitle(StemOf(title), ExtOf(title)) \o "(1).json") \notin jsons

\* a run that started with record A (short.json, whose title names the plain file
\* exactly), record B (long.json, whose longer title is cut to A's stem) and A's
\* file, nothing having failed
RunOverBothTitles ==
    /\ runNo >= 1
    /\ {"short.json", "long.json"} \subseteq runStart.jsons
    /\ ExistsMedia(runStart.fs, BaseDir, ShortenedTitle)
    /\ faults = 0

\* C26: in a run of process_all the truncated-name fallback of the longer title B
\* never takes the file that the shorter title A names exactly: no call for record B
\* resolves to A's file.
C26_FallbackNeverSteals ==
    (RunOverBothTitles /\ pc = "running" /\ idx >= 1) =>
        ~(last.json = "long.json" /\ last.resolved = ShortenedTitle /\ last.moveTried)

\* C27: the MovedLedger is a duplicate-free list of relocated file names: an entry is
\* added only by a successful relocation, and it is the name of the file that the
\* relocation placed in MatchedMedia, also when format conversion renamed the file.
C27_LedgerNamesRelocatedFiles ==
    /\ \A a, c \in 1..Len(media_moved) : a # c => media_moved[a] # media_moved[c]
    /\ (last.outcome = "Success" /\ media_moved # <<>>) =>
           /\ media_moved[Len(media_moved)] = last.final
           /\ ExistsMedia(fs, MatchedDir, media_moved[Len(media_moved)])

\* C28: a record that passes validation, and so reaches resolution and the applier,
\* has timestamp >= 0, latitude in [-90, 90] and longitude in [-180, 180]; a record
\* violating any of the three gets a validation error.
C28_AcceptedRecordInRange ==
    Validated =>
        LET raw == probe.raw
            res == probe.result
        IN  /\ res.is_valid =>
                  /\ TsField(raw).k = "num" => TsField(raw).v >= 0
                  /\ ~NumberOutside(GeoField(raw, "latitude"), LatMin, LatMax)
                  /\ ~NumberOutside(GeoField(raw, "longitude"), LonMin, LonMax)
            /\ (TsField(raw).k = "num" /\ TsField(raw).v < 0) => res.errors # <<>>

\* the number of independent violations of a record: a missing or wrongly typed
\* required field, a missing or unparsable timestamp, an out-of-range or unparsable
\* latitude or longitude, an unparsable altitude
ViolationCount(raw) ==
    (IF raw.title.k \in {"missing", "other"} THEN 1 ELSE 0)
    + (IF raw.photoTakenTime # "dict" THEN 1 ELSE 0)
    + (IF raw.geoData # "dict" THEN 1 ELSE 0)
    + (IF raw.photoTakenTime = "dict" /\ raw.timestamp.k \in {"missing", "bad"} THEN 1 ELSE 0)
    + (IF GeoField(raw, "latitude").k = "bad"
          \/ NumberOutside(GeoField(raw, "latitude"), LatMin, LatMax) THEN 1 ELSE 0)
    + (IF GeoField(raw, "longitude").k = "bad"
          \/ NumberOutside(GeoField(raw, "longitude"), LonMin, LonMax) THEN 1 ELSE 0)
    + (IF GeoField(raw, "altitude").k = "bad" THEN 1 ELSE 0)

\* C29: for every parsed record validate_metadata returns a result, it does not
\* raise, and the errors list has an entry for each independent violation present.
C29_ValidatorAccumulatesAll ==
    (probe.op = "validate" /\ probe.done) =>
        /\ ~probe.result.raised
        /\ Len(probe.result.errors) >= ViolationCount(probe.raw)

\* C30: extract_metadata_from_json is total: for every raw record it returns
\* title, timestamp and geo without raising, a missing title replaced by "", a
\* missing timestamp and each missing geo field by 0.
C30_ExtractIsTotal ==
    (probe.op = "validate" /\ probe.extracted.done) =>
        /\ ~probe.extracted.raised
        /\ probe.raw.title.k = "missing" => probe.extracted.metadata.title = ""
        /\ TsField(probe.raw).k = "missing" => probe.extracted.metadata.timestamp = 0
        /\ \A field \in {"latitude", "longitude", "altitude"} :
              GeoField(probe.raw, field).k = "missing"
                  => probe.extracted.metadata.geo_data[field] = 0

MoveDone == probe.op = "move" /\ probe.done

\* the source of the probed move exists once the destination has been removed
SourceMovable ==
    /\ ExistsMedia(probe.before, probe.sd, "a.jpg")
    /\ probe.sd # MatchedDir

\* C31: safe_move_file ends after at most max_retries attempts; every attempt before
\* the last failed with a permission/lock error; True is returned by the first
\* attempt that succeeds; False is returned after max_retries lock failures, and at
\* once, without a retry, on any other error.
C31_MoveRetriesOnlyOnLock ==
    MoveDone =>
        /\ probe.attempts \in 1..MaxRetries
        /\ \A k \in 1..(probe.attempts - 1) : probe.script[k] \in {"destLocked", "srcLocked"}
        /\ probe.ok => (SourceMovable /\ probe.script[probe.attempts] \notin {"srcLocked", "error"})
        /\ (~probe.ok /\ probe.attempts < MaxRetries) =>
              (~SourceMovable \/ probe.script[probe.attempts] = "error")
        /\ (SourceMovable /\ probe.script[1] = "error") => (~probe.ok /\ probe.attempts = 1)

C31_Witness ==
    /\ MoveDone
    /\ probe.script = <<"srcLocked", "srcLocked", "ok">>
    /\ probe.ok
    /\ probe.attempts = MaxRetries

\* C35: a failed move changes nothing: when safe_move_file returns False the source
\* is still at its path and a file that was at the destination path is still there,
\* also when the two paths are the same.
C35_FailedMoveChangesNothing ==
    (MoveDone /\ ~probe.ok /\ ExistsMedia(probe.before, probe.sd, "a.jpg")) =>
        fs = probe.before

\* C32: on every metadata-application path the file times are set, or the attempt is
\* made, for every file the path has in hand, also when the write of the embedded
\* metadata has failed: in process_json_file and in apply_metadata (apply_template).
C32_FileTimeAlwaysAttempted ==
    probe.op = "backup" =>
        /\ last.exifFailed => last.timeTried
        /\ (probe.applied.done /\ probe.applied.stage # "convert")
               => probe.applied.stage = "time"

\* C33: validator warnings are logged and never block: a record that validation
\* accepts with warnings goes on to resolution, and each warning is written to the log.
C33_WarningsLoggedNeverBlock ==
    (probe.op = "backup" /\ last.n >= 1 /\ last.outcome # "Skipped") =>
        LET v == validate_metadata(RawOf(last.json))
        IN  (v.is_valid /\ v.warnings # <<>>) =>
                /\ last.outcome # "ValidationFailed"
                /\ \A k \in 1..Len(v.warnings) :
                       InList("Validation warning: " \o v.warnings[k], errorLog)

\* C34: no media file is ever lost: every media file that lies in the primary
\* directory, MatchedMedia or EditedRaw before a step of the pipeline still lies in
\* one of the three after it (files are told apart by id, whatever their name).
C34_NoMediaFileLost ==
    [][\A e \in fs : \E x \in fs' : x.id = e.id]_vars

\* C36: each process_json_file call on a record that exists adds one to exactly one
\* of success_counter and error_counter, and a call on an absent record changes
\* neither; in a process_all run the two counters sum to the number of records
\* processed so far at every progress callback, and to the number of records of the
\* run in the returned pair.
CallCountsOnce ==
    (last'.n = last.n + 1) =>
        IF last'.json \in jsons
        THEN \/ success_counter' = success_counter + 1 /\ error_counter' = error_counter
             \/ success_counter' = success_counter /\ error_counter' = error_counter + 1
        ELSE (last'.outcome = "Skipped") =>
                 success_counter' = success_counter /\ error_counter' = error_counter

RunCountsProcessed ==
    /\ pc = "running" => success_counter + error_counter = idx
    /\ \A k \in 1..Len(progress) : progress[k].success + progress[k].error = k - 1
    /\ (pc = "idle" /\ runNo >= 1) =>
           returned[Len(returned)][1] + returned[Len(returned)][2] = Len(queue)

C37_ResultMatchesCommitState ==
    last.n >= 1 => (last.ret <=> last.json \notin jsons)

\* the plain original that goes with the name a search returned: the title when the
\* name is its edited or (1) candidate, the truncated title when it is the edited or
\* (1) candidate of the truncated stem, "" for every other name
OriginalOfReturned ==
    LET t == fix_title(probe.title)
        name == StemOf(t)
        ext == ExtOf(t)
        short == SubSeq(name, 1, TruncLen)
    IN  IF probe.name \in {EditedName(name, ext), AltName(name, ext)} THEN t
        ELSE IF Len(name) > TruncLen
                /\ probe.name \in {EditedName(short, ext), AltName(short, ext)}
        THEN ShortTitle(name, ext)
        ELSE ""

\* C38: search_media_file leaves the counters alone and changes the filesystem in one
\* way only: when it returns an edited or (1) candidate found in the primary
\* directory, the plain original of that title is moved from the primary directory
\* to EditedRaw; in every other case the filesystem is as it was (the environment
\* raising nothing).
C38_SearchOnlyMovesOriginal ==
    (probe.op = "search" /\ probe.done /\ probe.env = 0) =>
        /\ success_counter = 0 /\ error_counter = 0
        /\ IF /\ probe.found /\ probe.root = BaseDir
              /\ OriginalOfReturned # ""
              /\ ExistsMedia(probe.before, BaseDir, OriginalOfReturned)
           THEN fs = MoveEntry(probe.before, BaseDir, OriginalOfReturned,
                               EditedDir, OriginalOfReturned)
           ELSE fs = probe.before

\* C39: for a title without an extension that is already in the ledger,
\* check_if_same_name returns <name>(n) for some n >= 1, with no trailing dot: the
\* form of the extensionless (1) candidate of search_media_file.
C39_ExtensionlessSuffixHasNoDot ==
    (/\ probe.op = "names" /\ probe.calls >= 1
     /\ ~HasChar(probe.title, ".")
     /\ InList(probe.title, probe.before)) =>
        /\ \E n \in 1..(Len(probe.before) + 1) :
               probe.result = probe.title \o "(" \o IntToStr(n) \o ")"
        /\ CharAt(probe.result, Len(probe.result)) # "."

=============================================================================
